---- MODULE Spec2Model ----
(***************************************************************************)
(* A model of the Parchment document engine bundled in                     *)
(* src/parchment/dist/parchment.js: the host (DOM) tree, the mutation      *)
(* observer's record queue, the blot objects with their sibling/parent     *)
(* pointers, the identity table (Registry.blots) and the root's            *)
(* index-addressed operations, update and optimize.                        *)
(*                                                                         *)
(* Objects live in a heap h:                                               *)
(*   h.dom   host nodes      id -> [tag, parent, kids, data, color]        *)
(*   h.blot  blot objects    id -> [kind, dom, parent, prev, next,         *)
(*                                  head, tail, len, text, attrs]          *)
(*   h.tbl   identity table  host node id -> blot id (Registry.blots)      *)
(*   h.recs  the records the observer has queued and not yet handed over   *)
(*   h.err   the exception that ended the running operation, if any        *)
(*   h.log   the calls the running operation has completed                 *)
(*   h.detached, h.folded, h.merged, h.ret   what the running operation    *)
(*           detached, how many records its update took, the format sets   *)
(*           of the inline pairs it merged, and the value it returned      *)
(*   h.made  the host nodes the running operation's update made a blot for *)
(***************************************************************************)
EXTENDS Integers, Sequences, FiniteSets, TLC

VARIABLES h, lastOp, nHost, nApp, opt

vars == <<h, lastOp, nHost, nApp, opt>>

\* ------------------------------------------------------------------ bounds

MaxDom == 6
MaxText == 2
MaxPending == 2
MaxHost == 2
MaxApp == 1
MaxNodes == 3
MaxCalls == 2
MaxEntries == 3
MaxEntryLen == 2
MaxRegs == 3
MaxValueLen == 3
MaxTokens == 3
MaxLines == 3
MaxConfigured == 2
MaxKeydowns == 1
MaxImages == 2
MaxShows == 3
MaxHides == 2
MaxChanges == 2

\* --------------------------------------------------------------- constants

Null == 0
Body == 99
RootDom == 1
RootBlot == 1
NoErr == "none"
NoRet == -1
Chars == {"a", "b"}
Colors == {"red", "blue"}

\* Scope enum
TYPE == 3
LEVEL == 12
ATTRIBUTE == 13
BLOT == 14
INLINE == 7
BLOCK == 11
BLOCK_BLOT == 10
INLINE_BLOT == 6
BLOCK_ATTRIBUTE == 9
INLINE_ATTRIBUTE == 5
ANY == 15

MAX_OPTIMIZE_ITERATIONS == 100

\* ----------------------------------------------------------------- helpers

Min(a, b) == IF a < b THEN a ELSE b

RemoveAt(s, i) == SubSeq(s, 1, i - 1) \o SubSeq(s, i + 1, Len(s))

InsertAtIdx(s, i, x) == SubSeq(s, 1, i - 1) \o <<x>> \o SubSeq(s, i, Len(s))

Has(s, x) == \E i \in 1..Len(s) : s[i] = x

IndexOf(s, x) == IF Has(s, x) THEN CHOOSE i \in 1..Len(s) : s[i] = x ELSE 0

Range(s) == {s[i] : i \in 1..Len(s)}

\* the first unused id of a heap component
Fresh(f) == CHOOSE n \in 1..(Cardinality(DOMAIN f) + 1) : n \notin DOMAIN f

Put(f, k, v) == IF k \in DOMAIN f THEN [f EXCEPT ![k] = v] ELSE f @@ (k :> v)

Drop(f, k) == [x \in (DOMAIN f) \ {k} |-> f[x]]

Throw(hh, e) == IF hh.err = NoErr THEN [hh EXCEPT !.err = e] ELSE hh

Log(hh, e) == IF hh.err # NoErr THEN hh ELSE [hh EXCEPT !.log = Append(@, e)]

\* the one member of a singleton: The({e : x \in {v}}) is e with x standing
\* for the value of v
The(S) == CHOOSE x \in S : TRUE

\* a blot field assigned under a condition
SetIf(hh, c, b, f, v) == IF c THEN [hh EXCEPT !.blot[b][f] = v] ELSE hh

\* ------------------------------------------------------------ the host tree

parentNode(hh, n) == IF n \in DOMAIN hh.dom THEN hh.dom[n].parent ELSE Null

\* the child of p that lies d places after n, Null when there is none
Sibling(hh, p, n, d) ==
  IF p = Null \/ p = Body THEN Null
  ELSE IF IndexOf(hh.dom[p].kids, n) + d \in 1..Len(hh.dom[p].kids)
  THEN hh.dom[p].kids[IndexOf(hh.dom[p].kids, n) + d]
  ELSE Null

RECURSIVE DomTop(_, _)
DomTop(hh, n) ==
  IF parentNode(hh, n) = Null THEN n ELSE DomTop(hh, parentNode(hh, n))

\* document.body.compareDocumentPosition(n) & DOCUMENT_POSITION_CONTAINED_BY
ContainedByBody(hh, n) == DomTop(hh, n) = Body

\* the observer watches the root's host node with subtree: true
Observed(hh, n) == DomTop(hh, n) = Body /\ n # Body

\* node.contains(other): other is node or lies below it
RECURSIVE Contains(_, _, _)
Contains(hh, n, other) ==
  IF other = Null \/ other = Body THEN FALSE
  ELSE IF other = n THEN TRUE
  ELSE Contains(hh, n, parentNode(hh, other))

nextSibling(hh, n) == Sibling(hh, parentNode(hh, n), n, 1)

previousSibling(hh, n) == Sibling(hh, parentNode(hh, n), n, -1)

MutationRecord(type, target, added, removed, prev) ==
  [type |-> type, target |-> target, addedNodes |-> added,
   removedNodes |-> removed, previousSibling |-> prev]

Queue(hh, n, r) ==
  IF Observed(hh, n) THEN [hh EXCEPT !.recs = Append(@, r)] ELSE hh

Node_removeChild(hh, p, c) ==
  IF hh.err # NoErr \/ p = Body THEN hh
  ELSE [Queue(hh, p, MutationRecord("childList", p, <<>>, <<c>>,
                                    previousSibling(hh, c)))
          EXCEPT !.dom[p].kids = RemoveAt(@, IndexOf(@, c)),
                 !.dom[c].parent = Null]

Node_insertBefore(hh, p, c, ref) ==
  IF hh.err # NoErr THEN hh
  ELSE IF ref # Null /\ ~Has(hh.dom[p].kids, ref) THEN Throw(hh, "NotFoundError")
  ELSE IF Contains(hh, c, p) THEN Throw(hh, "HierarchyRequestError")
  ELSE The({The({
    Queue([h0 EXCEPT !.dom[p].kids = InsertAtIdx(@, i, c), !.dom[c].parent = p],
          p, MutationRecord("childList", p, <<c>>, <<>>,
                            IF i > 1 THEN h0.dom[p].kids[i - 1] ELSE Null))
    : i \in {IF ref = Null THEN Len(h0.dom[p].kids) + 1
             ELSE IndexOf(h0.dom[p].kids, ref)}})
    : h0 \in {IF parentNode(hh, c) # Null
              THEN Node_removeChild(hh, parentNode(hh, c), c) ELSE hh}})

\* Node.replaceChild(new, old), new having no parent: one record names both
Node_replaceChild(hh, p, new, old) ==
  IF hh.err # NoErr \/ p = Null THEN hh
  ELSE [Queue(hh, p, MutationRecord("childList", p, <<new>>, <<old>>,
                                    previousSibling(hh, old)))
          EXCEPT !.dom[p].kids = [hh.dom[p].kids
                                    EXCEPT ![IndexOf(hh.dom[p].kids, old)] = new],
                 !.dom[new].parent = p,
                 !.dom[old].parent = Null]

Node_setData(hh, n, s) ==
  IF hh.err # NoErr THEN hh
  ELSE
  Queue([hh EXCEPT !.dom[n].data = s], n,
        MutationRecord("characterData", n, <<>>, <<>>, Null))

Node_setAttribute(hh, n, v) ==
  IF hh.err # NoErr THEN hh
  ELSE
  Queue([hh EXCEPT !.dom[n].color = v], n,
        MutationRecord("attributes", n, <<>>, <<>>, Null))

NewNode(tag, data, color) ==
  [tag |-> tag, parent |-> Null, kids |-> <<>>, data |-> data, color |-> color]

\* document.createElement / createTextNode: the new node's id is Fresh(hh.dom)
createNode(hh, tag, data, color) ==
  [hh EXCEPT !.dom = Put(@, Fresh(hh.dom), NewNode(tag, data, color))]

\* Text.splitText(offset): the tail goes to a new node placed after n, then
\* n's data is cut
Text_splitText(hh, n, off) ==
  IF off > Len(hh.dom[n].data) THEN Throw(hh, "IndexSizeError")
  ELSE
  The({Node_setData(IF parentNode(h1, n) # Null
                    THEN Node_insertBefore(h1, parentNode(h1, n),
                                           Fresh(hh.dom), nextSibling(h1, n))
                    ELSE h1,
                    n, SubSeq(hh.dom[n].data, 1, off))
       : h1 \in {createNode(hh, "#text",
                            SubSeq(hh.dom[n].data, off + 1,
                                   Len(hh.dom[n].data)), "")}})

\* ------------------------------------------------------------------ Scope

RECURSIVE BitAnd(_, _)
BitAnd(x, y) ==
  IF x = 0 \/ y = 0 THEN 0
  ELSE (IF x % 2 = 1 /\ y % 2 = 1 THEN 1 ELSE 0) + 2 * BitAnd(x \div 2, y \div 2)

\* --------------------------------------------------------------- Registry
\* The descriptors registered with the registry: the library's scroll, block,
\* inline and text blots, one inline subclass (bold, tag STRONG) and one
\* attributor (color, key "color", inline scope).

BlotNames == {"scroll", "block", "inline", "bold", "text"}

AttrNames == {"color"}

NoDesc == "null"

DescScope(d) ==
  CASE d = "scroll" -> BLOCK_BLOT
    [] d = "block" -> BLOCK_BLOT
    [] d = "inline" -> INLINE_BLOT
    [] d = "bold" -> INLINE_BLOT
    [] d = "text" -> INLINE_BLOT
    [] d = "color" -> INLINE_ATTRIBUTE
    [] OTHER -> 0

\* Registry.tags, as register fills it
TagDesc(tag) ==
  CASE tag = "DIV" -> "scroll"
    [] tag = "P" -> "block"
    [] tag = "SPAN" -> "inline"
    [] tag = "STRONG" -> "bold"
    [] OTHER -> NoDesc

DescTag(d) ==
  CASE d = "scroll" -> "DIV"
    [] d = "block" -> "P"
    [] d = "inline" -> "SPAN"
    [] d = "bold" -> "STRONG"
    [] OTHER -> "#text"

\* the scope test that looks at the LEVEL bits only
ScopeMatchLevelOnly(d, mask) ==
  IF d = NoDesc THEN NoDesc
  ELSE IF BitAnd(BitAnd(mask, LEVEL), DescScope(d)) # 0 THEN d ELSE NoDesc

ScopeMatch(d, mask) ==
  IF d = NoDesc THEN NoDesc
  ELSE IF BitAnd(BitAnd(mask, LEVEL), DescScope(d)) # 0
          /\ BitAnd(BitAnd(mask, TYPE), DescScope(d)) # 0
       THEN d ELSE NoDesc

\* Registry.query with a name
Registry_queryName(name, mask) ==
  ScopeMatch(IF name \in BlotNames \cup AttrNames THEN name ELSE NoDesc, mask)

\* Registry.query with a scope number
Registry_queryScope(n, mask) ==
  ScopeMatch(IF BitAnd(BitAnd(n, LEVEL), BLOCK) # 0 THEN "block"
             ELSE IF BitAnd(BitAnd(n, LEVEL), INLINE) # 0 THEN "inline"
             ELSE NoDesc, mask)

\* Registry.query with a host node
Registry_queryNode(hh, n, mask) ==
  ScopeMatch(IF hh.dom[n].tag = "#text" THEN "text" ELSE TagDesc(hh.dom[n].tag),
             mask)

\* Registry.find(node, bubble)
RECURSIVE Registry_find(_, _, _)
Registry_find(hh, n, bubble) ==
  IF n = Null THEN Null
  ELSE IF n \in DOMAIN hh.tbl THEN hh.tbl[n]
  ELSE IF bubble THEN Registry_find(hh, parentNode(hh, n), bubble)
  ELSE Null

\* ------------------------------------------------------------ class tests

IsParent(k) == k \in {"scroll", "block", "inline", "bold"}

IsInline(k) == k \in {"inline", "bold"}

IsLeaf(k) == k \in {"text"}

\* statics.allowedChildren, with instanceof resolved over the kinds
AllowedChild(pk, ck) ==
  CASE pk = "scroll" -> ck \in {"block"}
    [] pk = "block" -> ck \in {"inline", "bold", "block", "text"}
    [] pk \in {"inline", "bold"} -> ck \in {"inline", "bold", "text"}
    [] OTHER -> FALSE

\* statics.defaultChild
DefaultChild(k) == IF k = "scroll" THEN "block" ELSE NoDesc

\* ------------------------------------------------------------- LinkedList
\* A parent blot holds its list in head, tail and len; the entries are blots
\* linked by prev and next.

\* the entries met by following next from start (the walk of iterator())
RECURSIVE Chain(_, _, _)
Chain(hh, start, fuel) ==
  IF start = Null \/ fuel = 0 THEN <<>>
  ELSE <<start>> \o Chain(hh, hh.blot[start].next, fuel - 1)

Fuel(hh) == Cardinality(DOMAIN hh.blot) + 1

Children(hh, p) == Chain(hh, hh.blot[p].head, Fuel(hh))

\* the blots reached from a blot through the children lists
RECURSIVE TreeBlots(_, _)
TreeBlots(hh, b) ==
  {b} \cup UNION {TreeBlots(hh, Children(hh, b)[i]) :
                    i \in 1..Len(Children(hh, b))}

\* LinkedList.contains(node)
LinkedList_contains(hh, p, t) == Has(Children(hh, p), t)

\* remove() that leaves the successor's prev pointing at the removed node
LinkedList_removeKeepsPrev(hh, p, t) ==
  IF ~LinkedList_contains(hh, p, t) THEN hh
  ELSE LET b == hh.blot[t] IN
       [SetIf(SetIf(SetIf(hh, b.prev # Null, b.prev, "next", b.next),
                    t = hh.blot[p].head, p, "head", b.next),
              t = hh.blot[p].tail, p, "tail", b.prev)
          EXCEPT !.blot[p].len = @ - 1]

\* LinkedList.remove(node)
LinkedList_remove(hh, p, t) ==
  IF ~LinkedList_contains(hh, p, t) THEN hh
  ELSE LET b == hh.blot[t] IN
       [SetIf(SetIf(SetIf(SetIf(hh, b.prev # Null, b.prev, "next", b.next),
                          b.next # Null, b.next, "prev", b.prev),
                    t = hh.blot[p].head, p, "head", b.next),
              t = hh.blot[p].tail, p, "tail", b.prev)
          EXCEPT !.blot[p].len = @ - 1]

\* LinkedList.insertBefore(node, refNode)
LinkedList_insertBefore(hh, p, t, ref) ==
  IF t = Null THEN hh
  ELSE The({
    [(IF ref # Null
      THEN SetIf(SetIf(SetIf([h1 EXCEPT !.blot[t].next = ref,
                                        !.blot[t].prev = h1.blot[ref].prev],
                             h1.blot[ref].prev # Null, h1.blot[ref].prev,
                             "next", t),
                       TRUE, ref, "prev", t),
                 ref = h1.blot[p].head, p, "head", t)
      ELSE IF h1.blot[p].tail # Null
      THEN [h1 EXCEPT !.blot[t].next = Null,
                      !.blot[h1.blot[p].tail].next = t,
                      !.blot[t].prev = h1.blot[p].tail,
                      !.blot[p].tail = t]
      ELSE [h1 EXCEPT !.blot[t].next = Null, !.blot[t].prev = Null,
                      !.blot[p].head = t, !.blot[p].tail = t])
       EXCEPT !.blot[p].len = @ + 1]
    : h1 \in {LinkedList_remove(hh, p, t)}})

\* LinkedList.append(node)
LinkedList_append(hh, p, t) == LinkedList_insertBefore(hh, p, t, Null)

\* Blot.length(): text length, 1 for another leaf, the children's sum for a
\* parent
RECURSIVE length(_, _)
RECURSIVE SumLength(_, _)
SumLength(hh, s) ==
  IF s = <<>> THEN 0 ELSE length(hh, s[1]) + SumLength(hh, Tail(s))

\* length() with every text blot counted as one position
lengthOneForText(hh, b) ==
  IF IsParent(hh.blot[b].kind) THEN SumLength(hh, Children(hh, b)) ELSE 1

length(hh, b) ==
  IF hh.blot[b].kind = "text" THEN Len(hh.blot[b].text)
  ELSE IF IsParent(hh.blot[b].kind) THEN SumLength(hh, Children(hh, b))
  ELSE 1

\* LinkedList.offset(node): the summed length of its predecessors, -1 if absent
LinkedList_offset(hh, p, t) ==
  LET ks == Children(hh, p) IN
  IF Has(ks, t) THEN SumLength(hh, SubSeq(ks, 1, IndexOf(ks, t) - 1)) ELSE -1

\* find that stops at the end of an entry whatever follows it
RECURSIVE FindFromAnyNext(_, _, _, _, _)
FindFromAnyNext(hh, cur, index, inclusive, fuel) ==
  IF cur = Null \/ fuel = 0 THEN <<Null, 0>>
  ELSE LET n == length(hh, cur)
           nx == hh.blot[cur].next
       IN IF index < n \/ (inclusive /\ index = n)
          THEN <<cur, index>>
          ELSE FindFromAnyNext(hh, nx, index - n, inclusive, fuel - 1)

\* LinkedList.find(index, inclusive) -> <<entry, offset>>
RECURSIVE FindFrom(_, _, _, _, _)
FindFrom(hh, cur, index, inclusive, fuel) ==
  IF cur = Null \/ fuel = 0 THEN <<Null, 0>>
  ELSE LET n == length(hh, cur)
           nx == hh.blot[cur].next
       IN IF index < n
             \/ (inclusive /\ index = n /\ (nx = Null \/ length(hh, nx) # 0))
          THEN <<cur, index>>
          ELSE FindFrom(hh, nx, index - n, inclusive, fuel - 1)

LinkedList_find(hh, p, index, inclusive) ==
  FindFrom(hh, hh.blot[p].head, index, inclusive, Fuel(hh))


\* ------------------------------------------------------------------ blots

\* a field assignment, skipped once an exception is in flight
SetB(hh, b, f, v) == IF hh.err # NoErr THEN hh ELSE [hh EXCEPT !.blot[b][f] = v]

\* String.prototype.normalize(): the letter e followed by the combining
\* acute accent, two code units, becomes the one code unit of the accented
\* letter; every other text is in normal form already
RECURSIVE Normalize(_)
Normalize(t) ==
  IF Len(t) < 2 THEN t
  ELSE IF t[1] = "e" /\ t[2] = "acute"
  THEN <<"eacute">> \o Normalize(SubSeq(t, 3, Len(t)))
  ELSE <<t[1]>> \o Normalize(Tail(t))

\* static TextBlot.value(domNode)
TextBlot_value(hh, n) == Normalize(hh.dom[n].data)

NewBlot(kind, dom) ==
  [kind |-> kind, dom |-> dom, parent |-> Null, prev |-> Null, next |-> Null,
   head |-> Null, tail |-> Null, len |-> 0, text |-> <<>>, attrs |-> {}]

\* the ShadowBlot constructor: the blot enters the identity table
ShadowBlot_new(hh, kind, dom) ==
  LET b == Fresh(hh.blot) IN
  [hh EXCEPT !.blot = Put(@, b, NewBlot(kind, dom)), !.tbl = Put(@, dom, b)]

\* Attributor.keys(node) met with the registry: the attribute names the node
\* carries
AttributorStore_build(hh, b) ==
  IF hh.err # NoErr THEN hh
  ELSE IF Registry_find(hh, hh.blot[b].dom, FALSE) = Null
  THEN [hh EXCEPT !.blot[b].attrs = {}]
  ELSE [hh EXCEPT !.blot[b].attrs =
          IF hh.dom[hh.blot[b].dom].color # "" THEN {"color"} ELSE {}]

\* Attributor.value(node)
Attributor_value(hh, n) == hh.dom[n].color

\* AttributorStore.values()
AttributorStore_values(hh, b) ==
  [k \in hh.blot[b].attrs |-> Attributor_value(hh, hh.blot[b].dom)]

\* InlineBlot.formats(): the store's values and the tag's format
InlineBlot_formats(hh, b) ==
  IF hh.blot[b].kind = "bold"
  THEN AttributorStore_values(hh, b) @@ ("bold" :> "true")
  ELSE AttributorStore_values(hh, b)

RECURSIVE Registry_createName(_, _, _)
RECURSIVE Registry_createNode(_, _)
RECURSIVE ParentBlot_build(_, _, _)
RECURSIVE makeAttachedBlot(_, _)
RECURSIVE ParentBlot_insertBefore(_, _, _, _)
RECURSIVE detach(_, _)
RECURSIVE DetachEach(_, _)

\* ParentBlot.insertBefore(child, ref)
ParentBlot_insertBefore(hh, p, t, ref) ==
  IF hh.err # NoErr THEN hh
  ELSE The({
    LET refDom == IF ref # Null THEN h2.blot[ref].dom ELSE Null
        pd == h2.blot[p].dom
        td == h2.blot[t].dom
    IN SetB(IF parentNode(h2, pd) = td /\ nextSibling(h2, pd) = refDom THEN h2
            ELSE Node_insertBefore(h2, pd, td, refDom),
            t, "parent", p)
    : h2 \in {LinkedList_insertBefore(
                IF hh.blot[t].parent # Null
                THEN LinkedList_remove(hh, hh.blot[t].parent, t) ELSE hh,
                p, t, ref)}})

ParentBlot_appendChild(hh, p, t) == ParentBlot_insertBefore(hh, p, t, Null)

\* the forEach in the catch of makeAttachedBlot: the node's children are
\* appended to the new inline's host node
RECURSIVE AdoptEach(_, _, _)
AdoptEach(hh, d, ks) ==
  IF ks = <<>> \/ hh.err # NoErr THEN hh
  ELSE AdoptEach(Node_insertBefore(hh, d, ks[1], Null), d, Tail(ks))

\* the catch of makeAttachedBlot: create(Scope.INLINE) makes an inline blot
\* on a new host node, the node's children move to that host node, and it
\* replaces the node under the node's parent; attach() builds nothing
makeAttachedBlotCatch(hh, n) ==
  The({[h |-> IF c.h.err # NoErr THEN c.h
              ELSE Node_replaceChild(
                     AdoptEach(c.h, c.h.blot[c.r].dom, c.h.dom[n].kids),
                     parentNode(c.h, n), c.h.blot[c.r].dom, n),
        r |-> c.r]
       : c \in {Registry_createName([hh EXCEPT !.err = NoErr],
                                    Registry_queryScope(INLINE, ANY), "")}})

\* makeAttachedBlot(node, scroll)
makeAttachedBlot(hh, n) ==
  IF Registry_find(hh, n, FALSE) # Null
  THEN [h |-> hh, r |-> Registry_find(hh, n, FALSE)]
  ELSE The({IF m.h.err = NoErr \/ hh.err # NoErr THEN m
            ELSE makeAttachedBlotCatch(m.h, n)
            : m \in {Registry_createNode(hh, n)}})

\* ParentBlot.build(): a blot for every host child, last to first
ParentBlot_build(hh, p, ks) ==
  IF ks = <<>> \/ hh.err # NoErr THEN hh
  ELSE ParentBlot_build(
         The({IF m.h.err = "UnableToCreate" THEN [m.h EXCEPT !.err = NoErr]
              ELSE ParentBlot_insertBefore(m.h, p, m.r, m.h.blot[p].head)
              : m \in {makeAttachedBlot(hh, ks[Len(ks)])}}),
         p, SubSeq(ks, 1, Len(ks) - 1))

\* Registry.create(scroll, node): the blot of an existing host node
Registry_createNode(hh, n) ==
  LET d == Registry_queryNode(hh, n, ANY)
      b == Fresh(hh.blot)
  IN IF hh.err # NoErr THEN [h |-> hh, r |-> Null]
     ELSE IF d = NoDesc THEN [h |-> Throw(hh, "UnableToCreate"), r |-> Null]
     ELSE IF d = "text"
     THEN [h |-> The({[h1 EXCEPT !.blot[b].text = TextBlot_value(h1, n)]
                      : h1 \in {ShadowBlot_new(hh, d, n)}}),
           r |-> b]
     ELSE [h |-> The({IF d \in {"inline", "bold", "block"}
                      THEN AttributorStore_build(h2, b) ELSE h2
                      : h2 \in {ParentBlot_build(ShadowBlot_new(hh, d, n), b,
                                                 hh.dom[n].kids)}}),
           r |-> b]

\* Registry.create(scroll, name, value): a new host node and its blot
Registry_createName(hh, name, value) ==
  IF hh.err # NoErr THEN [h |-> hh, r |-> Null]
  ELSE IF Registry_queryName(name, ANY) = NoDesc \/ name \in AttrNames
  THEN [h |-> Throw(hh, "UnableToCreate"), r |-> Null]
  ELSE [h |-> SetIf(ShadowBlot_new(
                      createNode(hh, DescTag(name),
                                 IF name = "text" THEN value ELSE <<>>, ""),
                      name, Fresh(hh.dom)),
                    name = "text", Fresh(hh.blot), "text", value),
        r |-> Fresh(hh.blot)]

\* ShadowBlot.clone(): the host node copied without its children
clone(hh, b) ==
  IF hh.err # NoErr THEN [h |-> hh, r |-> Null]
  ELSE LET src == hh.dom[hh.blot[b].dom]
       IN Registry_createNode(createNode(hh, src.tag, src.data, src.color),
                              Fresh(hh.dom))

\* ParentBlot.removeChild(child)
ParentBlot_removeChild(hh, p, t) ==
  IF hh.err # NoErr THEN hh ELSE LinkedList_remove(hh, p, t)

\* what a detach adds to h.detached: the blot and the blots below it, each
\* with its host node
Detached(hh, b) ==
  [hh EXCEPT !.detached =
     @ \cup {<<x, hh.blot[x].dom>> : x \in TreeBlots(hh, b)}]

\* detach() that forgets the identity table
ShadowBlot_detachKeepsEntry(hh, b) ==
  IF hh.err # NoErr THEN hh
  ELSE IF hh.blot[b].parent # Null
  THEN ParentBlot_removeChild(hh, hh.blot[b].parent, b) ELSE hh

\* ShadowBlot.detach()
ShadowBlot_detach(hh, b) ==
  IF hh.err # NoErr THEN hh
  ELSE [(IF hh.blot[b].parent # Null
         THEN ParentBlot_removeChild(hh, hh.blot[b].parent, b) ELSE hh)
          EXCEPT !.tbl = Drop(@, hh.blot[b].dom)]

DetachEach(hh, cur) ==
  IF cur = Null \/ hh.err # NoErr THEN hh
  ELSE DetachEach(detach(hh, cur), hh.blot[cur].next)

\* ParentBlot.detach(): the children first
ParentBlot_detach(hh, b) ==
  ShadowBlot_detach(DetachEach(hh, hh.blot[b].head), b)

\* blot.detach(); h.detached notes the blot and the blots below it, each with
\* its host node
detach(hh, b) ==
  IF IsParent(hh.blot[b].kind) THEN ParentBlot_detach(Detached(hh, b), b)
  ELSE ShadowBlot_detach(Detached(hh, b), b)

\* ShadowBlot.remove()
remove(hh, b) ==
  LET n == hh.blot[b].dom
  IN detach(IF parentNode(hh, n) # Null
            THEN Node_removeChild(hh, parentNode(hh, n), n) ELSE hh, b)


RECURSIVE MoveEach(_, _, _, _)
\* ParentBlot.moveChildren(target, ref): children.forEach(insertBefore)
MoveEach(hh, cur, target, ref) ==
  IF cur = Null \/ hh.err # NoErr THEN hh
  ELSE MoveEach(ParentBlot_insertBefore(hh, target, cur, ref),
                hh.blot[cur].next, target, ref)

ParentBlot_moveChildren(hh, b, target, ref) ==
  MoveEach(hh, hh.blot[b].head, target, ref)

\* ParentBlot.unwrap()
ParentBlot_unwrap(hh, b) ==
  remove(IF hh.blot[b].parent # Null
         THEN ParentBlot_moveChildren(hh, b, hh.blot[b].parent, hh.blot[b].next)
         ELSE hh, b)

\* Attributor.add(node, value): setAttribute
Attributor_add(hh, n, v) == Node_setAttribute(hh, n, v)

\* Attributor.remove(node): removeAttribute, a record only if it was set
Attributor_remove(hh, n) ==
  IF hh.dom[n].color = "" THEN hh ELSE Node_setAttribute(hh, n, "")

\* AttributorStore.attribute(attributor, value)
AttributorStore_attribute(hh, b, v) ==
  IF hh.err # NoErr THEN hh
  ELSE IF v # ""
  THEN [Attributor_add(hh, hh.blot[b].dom, v)
          EXCEPT !.blot[b].attrs = @ \cup {"color"}]
  ELSE [Attributor_remove(hh, hh.blot[b].dom)
          EXCEPT !.blot[b].attrs = @ \ {"color"}]

RECURSIVE ShadowBlot_replaceWith(_, _, _)
RECURSIVE InlineBlot_format(_, _, _, _)
RECURSIVE format(_, _, _, _)
RECURSIVE ShadowBlot_wrap(_, _, _)
RECURSIVE wrap(_, _, _)
RECURSIVE wrapName(_, _, _, _)
RECURSIVE FormatChildren(_, _, _)

\* AttributorStore.copy(target): target.format(name, value) for every entry
AttributorStore_copy(hh, b, target) ==
  IF hh.err # NoErr \/ hh.blot[b].attrs = {} THEN hh
  ELSE format(hh, target, "color", Attributor_value(hh, hh.blot[b].dom))

\* AttributorStore.move(target)
AttributorStore_move(hh, b, target) ==
  The({SetB(IF h1.blot[b].attrs = {} THEN h1
            ELSE Attributor_remove(h1, h1.blot[b].dom),
            b, "attrs", {})
       : h1 \in {AttributorStore_copy(hh, b, target)}})

\* ShadowBlot.replaceWith(blot)
ShadowBlot_replaceWith(hh, b, s) ==
  IF hh.err # NoErr THEN hh
  ELSE IF hh.blot[b].parent # Null
  THEN remove(ParentBlot_insertBefore(hh, hh.blot[b].parent, s, hh.blot[b].next), b)
  ELSE hh

\* ParentBlot.replaceWith(name, value), with InlineBlot's and BlockBlot's
\* copy of the attributes
ParentBlot_replaceWith(hh, b, name, value) ==
  The({[h |-> The({IF h2.err = NoErr
                      /\ hh.blot[b].kind \in {"inline", "bold", "block"}
                   THEN AttributorStore_copy(h2, b, c.r) ELSE h2
                   : h2 \in {ShadowBlot_replaceWith(
                               IF c.h.err = NoErr /\ IsParent(c.h.blot[c.r].kind)
                               THEN ParentBlot_moveChildren(c.h, b, c.r, Null)
                               ELSE c.h,
                               b, c.r)}}),
        r |-> c.r]
       : c \in {Registry_createName(hh, name, value)}})

\* ShadowBlot.wrap(blot)
\* wrap that puts the wrapper last among the siblings
ShadowBlot_wrapLast(hh, b, s) ==
  IF hh.err # NoErr THEN hh
  ELSE The({IF ~IsParent(h1.blot[s].kind) THEN Throw(h1, "CannotWrap")
            ELSE ParentBlot_appendChild(h1, s, b)
            : h1 \in {IF hh.blot[b].parent # Null
                      THEN ParentBlot_insertBefore(hh, hh.blot[b].parent, s, Null)
                      ELSE hh}})

ShadowBlot_wrap(hh, b, s) ==
  IF hh.err # NoErr THEN hh
  ELSE The({IF ~IsParent(h1.blot[s].kind) THEN Throw(h1, "CannotWrap")
            ELSE ParentBlot_appendChild(h1, s, b)
            : h1 \in {IF hh.blot[b].parent # Null
                      THEN ParentBlot_insertBefore(hh, hh.blot[b].parent, s,
                                                   hh.blot[b].next)
                      ELSE hh}})

\* wrap(blot), with InlineBlot's move of the attributes
wrap(hh, b, s) ==
  The({IF h1.err = NoErr /\ IsInline(h1.blot[b].kind)
          /\ IsInline(h1.blot[s].kind)
       THEN AttributorStore_move(h1, b, s) ELSE h1
       : h1 \in {ShadowBlot_wrap(hh, b, s)}})

\* wrap(name, value)
wrapName(hh, b, name, value) ==
  The({[h |-> IF c.h.err # NoErr THEN c.h ELSE wrap(c.h, b, c.r), r |-> c.r]
       : c \in {Registry_createName(hh, name, value)}})

\* the children.forEach of InlineBlot.format(own name, falsy)
FormatChildren(hh, b, cur) ==
  IF cur = Null \/ hh.err # NoErr THEN hh
  ELSE FormatChildren(
         The({AttributorStore_copy(w.h, b, w.r)
              : w \in {IF IsInline(hh.blot[cur].kind) THEN [h |-> hh, r |-> cur]
                       ELSE wrapName(hh, cur, "inline", "true")}}),
         b, hh.blot[cur].next)

\* InlineBlot.format(name, value)
InlineBlot_format(hh, b, name, value) ==
  IF hh.err # NoErr THEN hh
  ELSE IF name # hh.blot[b].kind \/ value # ""
  THEN LET d == Registry_queryName(name, INLINE) IN
       IF d = NoDesc THEN hh
       ELSE IF d \in AttrNames THEN AttributorStore_attribute(hh, b, value)
       ELSE IF value = ""
               \/ (name = hh.blot[b].kind
                   /\ name \in DOMAIN InlineBlot_formats(hh, b)
                   /\ InlineBlot_formats(hh, b)[name] = value)
       THEN hh
       ELSE ParentBlot_replaceWith(hh, b, name, value).h
  ELSE ParentBlot_unwrap(FormatChildren(hh, b, hh.blot[b].head), b)

\* BlockBlot.format(name, value)
BlockBlot_format(hh, b, name, value) ==
  IF hh.err # NoErr THEN hh
  ELSE LET d == Registry_queryName(name, BLOCK) IN
       IF d = NoDesc THEN hh
       ELSE IF d \in AttrNames THEN AttributorStore_attribute(hh, b, value)
       ELSE IF value = "" /\ name # hh.blot[b].kind THEN hh
       ELSE ParentBlot_replaceWith(hh, b, IF value = "" THEN "block" ELSE name,
                                   value).h

format(hh, b, name, value) ==
  IF IsInline(hh.blot[b].kind) THEN InlineBlot_format(hh, b, name, value)
  ELSE IF hh.blot[b].kind = "block" THEN BlockBlot_format(hh, b, name, value)
  ELSE Throw(hh, "TypeError")


RECURSIVE split(_, _, _, _)
RECURSIVE SplitEach(_, _, _, _, _, _, _)
RECURSIVE deleteAt(_, _, _, _)
RECURSIVE DeleteEach(_, _, _, _, _)
RECURSIVE formatAt(_, _, _, _, _, _)
RECURSIVE FormatEach(_, _, _, _, _, _, _)
RECURSIVE insertAt(_, _, _, _)

\* the sub-range forEachAt hands to its visitor for the entry that starts at n
SubOffset(n, index) == IF index > n THEN index - n ELSE 0

SubLength(n, len, index, length_) ==
  IF index > n THEN Min(length_, n + len - index) ELSE Min(len, index + length_ - n)

\* where LinkedList.forEachAt starts: the entry find(index) gives and its start
EachStart(hh, p, index) ==
  LET f == LinkedList_find(hh, p, index, FALSE)
  IN [cur |-> f[1], n |-> index - f[2]]

\* the calls LinkedList.forEachAt makes to its visitor, in order
RECURSIVE EachVisit(_, _, _, _, _, _)
EachVisit(hh, cur, n, index, length_, fuel) ==
  IF cur = Null \/ ~(n < index + length_) \/ fuel = 0 THEN <<>>
  ELSE <<[entry |-> cur, offset |-> SubOffset(n, index),
          length |-> SubLength(n, length(hh, cur), index, length_)]>>
       \o EachVisit(hh, hh.blot[cur].next, n + length(hh, cur), index, length_,
                    fuel - 1)

\* forEachAt that starts at the head of the list
LinkedList_forEachAtFromHead(hh, p, index, length_) ==
  IF length_ <= 0 THEN <<>>
  ELSE EachVisit(hh, hh.blot[p].head, 0, index, length_, Fuel(hh))

LinkedList_forEachAt(hh, p, index, length_) ==
  IF length_ <= 0 THEN <<>>
  ELSE The({EachVisit(hh, st.cur, st.n, index, length_, Fuel(hh))
            : st \in {EachStart(hh, p, index)}})

\* split that leaves the text the blot remembers as it was
TextBlot_splitStaleText(hh, b, index, force) ==
  IF hh.err # NoErr THEN [h |-> hh, r |-> Null]
  ELSE IF ~force /\ index = 0 THEN [h |-> hh, r |-> b]
  ELSE IF ~force /\ index = length(hh, b) THEN [h |-> hh, r |-> hh.blot[b].next]
  ELSE The({
    [h |-> ParentBlot_insertBefore(c.h, c.h.blot[b].parent, c.r, c.h.blot[b].next),
     r |-> c.r]
    : c \in {Registry_createNode(Text_splitText(hh, hh.blot[b].dom, index),
                                 Fresh(hh.dom))}})

\* TextBlot.split(index, force)
TextBlot_split(hh, b, index, force) ==
  IF hh.err # NoErr THEN [h |-> hh, r |-> Null]
  ELSE IF ~force /\ index = 0 THEN [h |-> hh, r |-> b]
  ELSE IF ~force /\ index = length(hh, b) THEN [h |-> hh, r |-> hh.blot[b].next]
  ELSE The({
    [h |-> The({SetB(h1, b, "text", TextBlot_value(h1, hh.blot[b].dom))
                : h1 \in {ParentBlot_insertBefore(c.h, c.h.blot[b].parent, c.r,
                                                  c.h.blot[b].next)}}),
     r |-> c.r]
    : c \in {Registry_createNode(Text_splitText(hh, hh.blot[b].dom, index),
                                 Fresh(hh.dom))}})

\* the visitor of ParentBlot.split: split the child, hand the tail to the clone
SplitEach(hh, cur, n, index, length_, force, target) ==
  IF cur = Null \/ ~(n < index + length_) \/ hh.err # NoErr THEN hh
  ELSE SplitEach(
         The({IF sp.r # Null THEN ParentBlot_appendChild(sp.h, target, sp.r)
              ELSE sp.h
              : sp \in {split(hh, cur, SubOffset(n, index), force)}}),
         hh.blot[cur].next, n + length(hh, cur), index, length_, force, target)

\* ParentBlot.split(index, force)
ParentBlot_split(hh, b, index, force) ==
  IF hh.err # NoErr THEN [h |-> hh, r |-> Null]
  ELSE IF ~force /\ index = 0 THEN [h |-> hh, r |-> b]
  ELSE IF ~force /\ index = length(hh, b) THEN [h |-> hh, r |-> hh.blot[b].next]
  ELSE The({
    [h |-> The({LET len == length(h1, b)
                    st == EachStart(h1, b, index)
                IN IF len <= 0 THEN h1
                   ELSE SplitEach(h1, st.cur, st.n, index, len, force, c.r)
                : h1 \in {IF c.h.blot[b].parent # Null
                          THEN ParentBlot_insertBefore(c.h, c.h.blot[b].parent,
                                                       c.r, c.h.blot[b].next)
                          ELSE c.h}}),
     r |-> c.r]
    : c \in {clone(hh, b)}})

split(hh, b, index, force) ==
  IF hh.blot[b].kind = "text" THEN TextBlot_split(hh, b, index, force)
  ELSE ParentBlot_split(hh, b, index, force)

\* ShadowBlot.isolate(index, length)
isolate(hh, b, index, length_) ==
  The({IF s.h.err # NoErr THEN s
       ELSE IF s.r = Null THEN [h |-> Throw(s.h, "IsolateAtEnd"), r |-> Null]
       ELSE [h |-> split(s.h, s.r, length_, FALSE).h, r |-> s.r]
       : s \in {split(hh, b, index, FALSE)}})

\* TextBlot.deleteAt(index, length)
TextBlot_deleteAt(hh, b, index, length_) ==
  IF hh.err # NoErr THEN hh
  ELSE LET t == hh.blot[b].text
           nt == SubSeq(t, 1, index) \o SubSeq(t, index + length_ + 1, Len(t))
       IN Node_setData(SetB(hh, b, "text", nt), hh.blot[b].dom, nt)

DeleteEach(hh, cur, n, index, length_) ==
  IF cur = Null \/ ~(n < index + length_) \/ hh.err # NoErr THEN hh
  ELSE DeleteEach(deleteAt(hh, cur, SubOffset(n, index),
                           SubLength(n, length(hh, cur), index, length_)),
                  hh.blot[cur].next, n + length(hh, cur), index, length_)

\* ParentBlot.deleteAt(index, length)
ParentBlot_deleteAt(hh, b, index, length_) ==
  IF hh.err # NoErr THEN hh
  ELSE IF index = 0 /\ length_ = length(hh, b) THEN remove(hh, b)
  ELSE IF length_ <= 0 THEN hh
  ELSE LET st == EachStart(hh, b, index)
       IN DeleteEach(hh, st.cur, st.n, index, length_)

deleteAt(hh, b, index, length_) ==
  IF hh.blot[b].kind = "text" THEN TextBlot_deleteAt(hh, b, index, length_)
  ELSE ParentBlot_deleteAt(hh, b, index, length_)

\* TextBlot.insertAt(index, text)
TextBlot_insertAt(hh, b, index, value) ==
  IF hh.err # NoErr THEN hh
  ELSE LET t == hh.blot[b].text
           nt == SubSeq(t, 1, index) \o value \o SubSeq(t, index + 1, Len(t))
       IN Node_setData(SetB(hh, b, "text", nt), hh.blot[b].dom, nt)

\* ParentBlot.insertAt(index, text)
\* insertAt that looks its child up with the end of an entry included
ParentBlot_insertAtInclusive(hh, b, index, value) ==
  IF hh.err # NoErr THEN hh
  ELSE LET f == LinkedList_find(hh, b, index, TRUE) IN
       IF f[1] # Null THEN insertAt(hh, f[1], f[2], value)
       ELSE The({ParentBlot_appendChild(c.h, b, c.r)
                 : c \in {Registry_createName(hh, "text", value)}})

ParentBlot_insertAt(hh, b, index, value) ==
  IF hh.err # NoErr THEN hh
  ELSE LET f == LinkedList_find(hh, b, index, FALSE) IN
       IF f[1] # Null THEN insertAt(hh, f[1], f[2], value)
       ELSE The({ParentBlot_appendChild(c.h, b, c.r)
                 : c \in {Registry_createName(hh, "text", value)}})

insertAt(hh, b, index, value) ==
  IF hh.blot[b].kind = "text" THEN TextBlot_insertAt(hh, b, index, value)
  ELSE ParentBlot_insertAt(hh, b, index, value)

\* ShadowBlot.formatAt(index, length, name, value), the leaf's
ShadowBlot_formatAt(hh, b, index, length_, name, value) ==
  The({IF i.h.err # NoErr THEN i.h
       ELSE IF Registry_queryName(name, BLOT) # NoDesc /\ value # ""
       THEN wrapName(i.h, i.r, name, value).h
       ELSE IF Registry_queryName(name, ATTRIBUTE) # NoDesc
       THEN The({format(wrap(c.h, i.r, c.r), c.r, name, value)
                 : c \in {Registry_createName(
                            i.h, Registry_queryScope(INLINE_BLOT, ANY), "")}})
       ELSE i.h
       : i \in {isolate(hh, b, index, length_)}})

FormatEach(hh, cur, n, index, length_, name, value) ==
  IF cur = Null \/ ~(n < index + length_) \/ hh.err # NoErr THEN hh
  ELSE FormatEach(formatAt(hh, cur, SubOffset(n, index),
                           SubLength(n, length(hh, cur), index, length_),
                           name, value),
                  hh.blot[cur].next, n + length(hh, cur), index, length_,
                  name, value)

\* ParentBlot.formatAt(index, length, name, value)
ParentBlot_formatAt(hh, b, index, length_, name, value) ==
  IF hh.err # NoErr \/ length_ <= 0 THEN hh
  ELSE LET st == EachStart(hh, b, index)
       IN FormatEach(hh, st.cur, st.n, index, length_, name, value)

\* InlineBlot.formatAt(index, length, name, value)
InlineBlot_formatAt(hh, b, index, length_, name, value) ==
  IF hh.err # NoErr THEN hh
  ELSE IF name \in DOMAIN InlineBlot_formats(hh, b)
          \/ Registry_queryName(name, ATTRIBUTE) # NoDesc
  THEN The({IF i.h.err # NoErr THEN i.h ELSE format(i.h, i.r, name, value)
            : i \in {isolate(hh, b, index, length_)}})
  ELSE ParentBlot_formatAt(hh, b, index, length_, name, value)

\* BlockBlot.formatAt(index, length, name, value)
BlockBlot_formatAt(hh, b, index, length_, name, value) ==
  IF Registry_queryName(name, BLOCK) # NoDesc
  THEN BlockBlot_format(hh, b, name, value)
  ELSE ParentBlot_formatAt(hh, b, index, length_, name, value)

formatAt(hh, b, index, length_, name, value) ==
  CASE hh.blot[b].kind = "text" ->
         ShadowBlot_formatAt(hh, b, index, length_, name, value)
    [] IsInline(hh.blot[b].kind) ->
         InlineBlot_formatAt(hh, b, index, length_, name, value)
    [] hh.blot[b].kind = "block" ->
         BlockBlot_formatAt(hh, b, index, length_, name, value)
    [] OTHER -> ParentBlot_formatAt(hh, b, index, length_, name, value)


RECURSIVE SplitAfterLoop(_, _, _, _)
\* the loop of ParentBlot.splitAfter: while (child.next != null)
\*   clone.appendChild(child.next)
SplitAfterLoop(hh, t, target, fuel) ==
  IF hh.err # NoErr \/ fuel = 0 \/ hh.blot[t].next = Null THEN hh
  ELSE SplitAfterLoop(ParentBlot_appendChild(hh, target, hh.blot[t].next),
                      t, target, fuel - 1)

\* ParentBlot.splitAfter(child)
ParentBlot_splitAfter(hh, b, t) ==
  IF hh.err # NoErr THEN hh
  ELSE The({
    The({IF h1.err = NoErr /\ h1.blot[b].parent # Null
         THEN ParentBlot_insertBefore(h1, h1.blot[b].parent, c.r,
                                      h1.blot[b].next)
         ELSE h1
         : h1 \in {SplitAfterLoop(c.h, t, c.r, Fuel(c.h))}})
    : c \in {clone(hh, b)}})

\* what enforceAllowedChildren does with one child that is not allowed
EnforceChild(hh, b, e) ==
  IF DescScope(hh.blot[e].kind) = BLOCK_BLOT
  THEN The({
    The({IF h2.err # NoErr THEN h2
         ELSE ParentBlot_unwrap(h2, h2.blot[e].parent)
         : h2 \in {IF h1.err = NoErr /\ h1.blot[e].prev # Null
                   THEN ParentBlot_splitAfter(h1, b, h1.blot[e].prev)
                   ELSE h1}})
    : h1 \in {IF hh.blot[e].next # Null THEN ParentBlot_splitAfter(hh, b, e)
              ELSE hh}})
  ELSE IF IsParent(hh.blot[e].kind) THEN ParentBlot_unwrap(hh, e)
  ELSE remove(hh, e)

RECURSIVE EnforceEach(_, _, _, _)
EnforceEach(hh, b, cur, done) ==
  IF cur = Null \/ hh.err # NoErr THEN hh
  ELSE LET bad == ~done /\ ~AllowedChild(hh.blot[b].kind, hh.blot[cur].kind)
       IN EnforceEach(IF bad THEN EnforceChild(hh, b, cur) ELSE hh,
                      b, hh.blot[cur].next,
                      done \/ (bad /\ DescScope(hh.blot[cur].kind) = BLOCK_BLOT))

\* the loop that stops after any correction
RECURSIVE EnforceEachOnce(_, _, _, _)
EnforceEachOnce(hh, b, cur, done) ==
  IF cur = Null \/ hh.err # NoErr THEN hh
  ELSE LET bad == ~done /\ ~AllowedChild(hh.blot[b].kind, hh.blot[cur].kind)
       IN EnforceEachOnce(IF bad THEN EnforceChild(hh, b, cur) ELSE hh,
                          b, hh.blot[cur].next, done \/ bad)

\* enforceAllowedChildren that stops after its first correction
ParentBlot_enforceOnce(hh, b) ==
  EnforceEachOnce(hh, b, hh.blot[b].head, FALSE)

\* ParentBlot.enforceAllowedChildren()
ParentBlot_enforceAllowedChildren(hh, b) ==
  EnforceEach(hh, b, hh.blot[b].head, FALSE)

\* optimize that removes an empty parent whatever it declares
ParentBlot_optimizeNoDefault(hh, b) ==
  The({IF h1.err # NoErr THEN h1
       ELSE IF h1.blot[b].len = 0 THEN remove(h1, b)
       ELSE h1
       : h1 \in {ParentBlot_enforceAllowedChildren(hh, b)}})

\* ParentBlot.optimize(context)
ParentBlot_optimize(hh, b) ==
  The({IF h1.err # NoErr THEN h1
       ELSE IF h1.blot[b].len = 0
       THEN IF DefaultChild(h1.blot[b].kind) # NoDesc
            THEN The({ParentBlot_appendChild(c.h, b, c.r)
                      : c \in {Registry_createName(
                                 h1, DefaultChild(h1.blot[b].kind), "")}})
            ELSE remove(h1, b)
       ELSE h1
       : h1 \in {ParentBlot_enforceAllowedChildren(hh, b)}})

\* what a merge adds to h.merged: the two format sets, and the children
\* before and after
Merged(hm, h1, b, nx) ==
  [hm EXCEPT !.merged = Append(@,
     [first |-> InlineBlot_formats(h1, b),
      second |-> InlineBlot_formats(h1, nx),
      before |-> Children(h1, b) \o Children(h1, nx),
      after |-> Children(hm, b)])]

\* optimize() that merges the next inline whatever its formats
InlineBlot_optimizeMergesAny(hh, b) ==
  The({IF h1.err # NoErr THEN h1
       ELSE IF DOMAIN InlineBlot_formats(h1, b) = {}
       THEN ParentBlot_unwrap(h1, b)
       ELSE LET nx == h1.blot[b].next IN
            IF nx # Null /\ IsInline(h1.blot[nx].kind) /\ h1.blot[nx].prev = b
            THEN Merged(remove(ParentBlot_moveChildren(h1, nx, b, Null), nx),
                        h1, b, nx)
            ELSE h1
       : h1 \in {ParentBlot_optimize(hh, b)}})

\* InlineBlot.optimize(context)
InlineBlot_optimize(hh, b) ==
  The({IF h1.err # NoErr THEN h1
       ELSE IF DOMAIN InlineBlot_formats(h1, b) = {}
       THEN ParentBlot_unwrap(h1, b)
       ELSE LET nx == h1.blot[b].next IN
            IF nx # Null /\ IsInline(h1.blot[nx].kind) /\ h1.blot[nx].prev = b
               /\ InlineBlot_formats(h1, b) = InlineBlot_formats(h1, nx)
            THEN Merged(remove(ParentBlot_moveChildren(h1, nx, b, Null), nx),
                        h1, b, nx)
            ELSE h1
       : h1 \in {ParentBlot_optimize(hh, b)}})

\* TextBlot.optimize(context)
TextBlot_optimize(hh, b) ==
  IF hh.err # NoErr THEN hh
  ELSE LET h1 == SetB(hh, b, "text", TextBlot_value(hh, hh.blot[b].dom))
           nx == h1.blot[b].next
       IN IF Len(h1.blot[b].text) = 0 THEN remove(h1, b)
          ELSE IF nx # Null /\ h1.blot[nx].kind = "text" /\ h1.blot[nx].prev = b
          THEN remove(TextBlot_insertAt(h1, b, length(h1, b), h1.blot[nx].text),
                      nx)
          ELSE h1

\* blot.optimize(context), for a blot below the root
optimize(hh, b) ==
  CASE hh.blot[b].kind = "text" -> TextBlot_optimize(hh, b)
    [] IsInline(hh.blot[b].kind) -> InlineBlot_optimize(hh, b)
    [] OTHER -> ParentBlot_optimize(hh, b)

\* the records of a batch that name this host node
RecsOf(recs, n, type) ==
  SelectSeq(recs, LAMBDA r : r.target = n /\ r.type = type)

RECURSIVE Flatten(_, _)
Flatten(recs, f) ==
  IF recs = <<>> THEN <<>> ELSE recs[1][f] \o Flatten(Tail(recs), f)

\* the removedNodes.forEach of ParentBlot.update
RECURSIVE UpdateRemoved(_, _, _)
UpdateRemoved(hh, b, ns) ==
  IF ns = <<>> \/ hh.err # NoErr THEN hh
  ELSE LET e == Registry_find(hh, ns[1], FALSE)
           skip == parentNode(hh, ns[1]) # Null /\ ContainedByBody(hh, ns[1])
       IN UpdateRemoved(
            IF skip \/ e = Null THEN hh
            ELSE IF parentNode(hh, hh.blot[e].dom) # Null
                    /\ parentNode(hh, hh.blot[e].dom) # hh.blot[b].dom
            THEN hh
            ELSE detach(hh, e),
            b, Tail(ns))

\* the added nodes in the order of the document
SortAddedForward(ks, ns) ==
  LET RECURSIVE Go(_)
      Go(i) == IF i > Len(ks) THEN <<>>
               ELSE SelectSeq(ns, LAMBDA x : x = ks[i]) \o Go(i + 1)
  IN Go(1)

\* the sort of ParentBlot.update: a node goes after the nodes that follow it
\* in the document
SortAdded(ks, ns) ==
  LET RECURSIVE Go(_)
      Go(i) == IF i = 0 THEN <<>>
               ELSE SelectSeq(ns, LAMBDA x : x = ks[i]) \o Go(i - 1)
  IN Go(Len(ks))

\* what ParentBlot.update adds to h.made: the host node it made a blot for,
\* one that had none in h0
Made(hm, h0, n) ==
  IF hm.err # NoErr \/ Registry_find(h0, n, FALSE) # Null THEN hm
  ELSE [hm EXCEPT !.made = @ \cup {n}]

\* the history of the added nodes one root update handles: the parent blot,
\* the host node and its siblings, the blot of its next sibling, and where
\* the node's blot is in the children afterwards
Added(hp, h0, b, n, s, ref) ==
  IF hp.err # NoErr THEN hp
  ELSE [hp EXCEPT !.adds = Append(@,
          [parent |-> b, node |-> n, kids |-> h0.dom[h0.blot[b].dom].kids,
           blot |-> s, ref |-> ref, next |-> hp.blot[s].next,
           owner |-> hp.blot[s].parent])]

\* update that passes over the added nodes
UpdateAddedNone(hh, b, ns) == hh

\* the addedNodes.forEach of ParentBlot.update
RECURSIVE UpdateAdded(_, _, _)
UpdateAdded(hh, b, ns) ==
  IF ns = <<>> \/ hh.err # NoErr THEN hh
  ELSE UpdateAdded(
         Made(The({LET ref == IF nextSibling(hh, ns[1]) # Null
                         THEN Registry_find(hh, nextSibling(hh, ns[1]), FALSE)
                         ELSE Null
              IN IF m.h.err # NoErr THEN m.h
                 ELSE The({Added(hp, hh, b, ns[1], m.r, ref) : hp \in {
                   IF m.h.blot[m.r].next = ref /\ ref # Null THEN m.h
                   ELSE ParentBlot_insertBefore(
                          IF m.h.blot[m.r].parent # Null
                          THEN ParentBlot_removeChild(m.h, m.h.blot[m.r].parent, b)
                          ELSE m.h,
                          b, m.r, ref)}})
              : m \in {makeAttachedBlot(hh, ns[1])}}), hh, ns[1]),
         b, Tail(ns))

\* ParentBlot.update(mutations, context)
ParentBlot_update(hh, b, recs) ==
  IF hh.err # NoErr THEN hh
  ELSE LET n == hh.blot[b].dom
           mine == RecsOf(recs, n, "childList")
       IN The({
            ParentBlot_enforceAllowedChildren(
              UpdateAdded(h1, b,
                SortAdded(h1.dom[n].kids,
                          SelectSeq(Flatten(mine, "addedNodes"),
                                    LAMBDA x : parentNode(h1, x) = n))),
              b)
            : h1 \in {UpdateRemoved(hh, b, Flatten(mine, "removedNodes"))}})

\* InlineBlot.update / BlockBlot.update / TextBlot.update
update(hh, b, recs) ==
  IF hh.err # NoErr THEN hh
  ELSE IF hh.blot[b].kind = "text"
  THEN IF RecsOf(recs, hh.blot[b].dom, "characterData") # <<>>
       THEN SetB(hh, b, "text", TextBlot_value(hh, hh.blot[b].dom)) ELSE hh
  ELSE The({IF hh.blot[b].kind \in {"inline", "bold", "block"}
               /\ RecsOf(recs, hh.blot[b].dom, "attributes") # <<>>
            THEN AttributorStore_build(h1, b) ELSE h1
            : h1 \in {ParentBlot_update(hh, b, recs)}})


\* ----------------------------------------------------------------- the root

Reverse(q) == [i \in 1..Len(q) |-> q[Len(q) + 1 - i]]

\* observer.takeRecords()
takeRecords(hh) == [h |-> [hh EXCEPT !.recs = <<>>], r |-> hh.recs]

\* the closure `mark` of ScrollBlot.optimize: the blot's host node enters the
\* mutations map, and its ancestors' when chain is set
RECURSIVE Mark(_, _, _)
Mark(hh, t, chain) ==
  IF t = Null \/ t = RootBlot THEN hh
  ELSE IF parentNode(hh, hh.blot[t].dom) = Null THEN hh
  ELSE LET h1 == [hh EXCEPT !.dirty = @ \cup {hh.blot[t].dom}]
       IN IF chain THEN Mark(h1, hh.blot[t].parent, chain) ELSE h1

RECURSIVE MarkSeq(_, _)
MarkSeq(hh, bs) ==
  IF bs = <<>> \/ hh.err # NoErr THEN hh
  ELSE MarkSeq(Mark(hh, bs[1], FALSE), Tail(bs))

RECURSIVE MarkAdded(_, _)
MarkAdded(hh, ns) ==
  IF ns = <<>> \/ hh.err # NoErr THEN hh
  ELSE LET e == Registry_find(hh, ns[1], FALSE)
           h1 == Mark(hh, e, FALSE)
           h2 == IF e # Null /\ IsParent(h1.blot[e].kind)
                 THEN MarkSeq(h1, Children(h1, e)) ELSE h1
       IN MarkAdded(h2, Tail(ns))

\* what one record marks
MarkRecord(hh, rec) ==
  LET e == Registry_find(hh, rec.target, TRUE) IN
  IF e = Null THEN hh
  ELSE LET h1 == IF hh.blot[e].dom # rec.target THEN hh
                 ELSE IF rec.type = "childList"
                 THEN MarkAdded(Mark(hh, Registry_find(hh, rec.previousSibling,
                                                       FALSE), TRUE),
                                rec.addedNodes)
                 ELSE IF rec.type = "attributes"
                 THEN Mark(hh, hh.blot[e].prev, TRUE)
                 ELSE hh
       IN Mark(h1, e, TRUE)

RECURSIVE MarkRecords(_, _)
MarkRecords(hh, recs) ==
  IF recs = <<>> \/ hh.err # NoErr THEN hh
  ELSE MarkRecords(MarkRecord(hh, recs[1]), Tail(recs))

\* the closure `optimize` of ScrollBlot.optimize: a blot in the mutations map
\* has its children visited, leaves the map and is optimized
RECURSIVE Visit(_, _)
RECURSIVE VisitEach(_, _)
VisitEach(hh, cur) ==
  IF cur = Null \/ hh.err # NoErr THEN hh
  ELSE VisitEach(Visit(hh, cur), hh.blot[cur].next)

Visit(hh, b) ==
  IF hh.blot[b].dom \notin hh.dirty THEN hh
  ELSE optimize([(IF IsParent(hh.blot[b].kind)
                  THEN VisitEach(hh, hh.blot[b].head) ELSE hh)
                   EXCEPT !.dirty = @ \ {hh.blot[b].dom}], b)

MaxIterations(hh) == Throw(hh, "MaxIterations")

\* the throw one pass too late
ExhaustedLate(e) == e > MAX_OPTIMIZE_ITERATIONS

\* if (e >= MAX_OPTIMIZE_ITERATIONS) throw
Exhausted(e) == e >= MAX_OPTIMIZE_ITERATIONS

\* the loop that stops after one pass and leaves the observer's records
OptimizeLoopOnePass(hh, o, e) ==
  IF hh.err # NoErr THEN hh
  ELSE IF Len(o) = 0 THEN [hh EXCEPT !.passes = e]
  ELSE IF Exhausted(e) THEN MaxIterations(hh)
  ELSE The({[h2 EXCEPT !.passes = e + 1]
            : h2 \in {The({VisitEach(h1, h1.blot[RootBlot].head)
                           : h1 \in {MarkRecords(hh, o)}})}})

\* the loop of ScrollBlot.optimize
RECURSIVE OptimizeLoop(_, _, _)
OptimizeLoop(hh, o, e) ==
  IF hh.err # NoErr THEN hh
  ELSE IF Len(o) = 0 THEN [hh EXCEPT !.passes = e]
  ELSE IF Exhausted(e) THEN MaxIterations(hh)
  ELSE The({OptimizeLoop(t.h, t.r, e + 1)
            : t \in {takeRecords(
                       The({VisitEach(h1, h1.blot[RootBlot].head)
                            : h1 \in {MarkRecords(hh, o)}}))}})

\* ScrollBlot.optimize(mutations, context)
ScrollBlot_optimize(hh, mutations) ==
  IF hh.err # NoErr THEN hh
  ELSE The({Log(OptimizeLoop(t.h, mutations \o Reverse(t.r), 0), "optimize")
            : t \in {takeRecords(ParentBlot_optimize(hh, RootBlot))}})

\* the blots ScrollBlot.update groups the records under, by first appearance
RECURSIVE Affected(_, _, _)
Affected(hh, recs, seen) ==
  IF recs = <<>> THEN <<>>
  ELSE LET e == Registry_find(hh, recs[1].target, TRUE) IN
       IF e = Null \/ e \in seen THEN Affected(hh, Tail(recs), seen)
       ELSE <<e>> \o Affected(hh, Tail(recs), seen \cup {e})

\* the history of the update() calls one root update makes: the blot and the
\* records it is handed
Called(hh, b, rs) == [hh EXCEPT !.calls = Append(@, [blot |-> b, recs |-> rs])]

\* s.get(t.domNode): the records filed under the blot while the batch was
\* mapped
Filed(h0, recs, b) ==
  SelectSeq(recs, LAMBDA r : Registry_find(h0, r.target, TRUE) = b)

\* the forEach with the root taken in its turn
RECURSIVE UpdateEachRootInTurn(_, _, _, _)
UpdateEachRootInTurn(hh, h0, recs, bs) ==
  IF bs = <<>> \/ hh.err # NoErr THEN hh
  ELSE UpdateEachRootInTurn(
         update(Called(hh, bs[1], Filed(h0, recs, bs[1])), bs[1],
                Filed(h0, recs, bs[1])),
         h0, recs, Tail(bs))

\* .forEach(t => null != t && t !== this && s.has(t.domNode) && t.update(...))
RECURSIVE UpdateEach(_, _, _, _)
UpdateEach(hh, h0, recs, bs) ==
  IF bs = <<>> \/ hh.err # NoErr THEN hh
  ELSE UpdateEach(
         IF bs[1] # RootBlot
         THEN update(Called(hh, bs[1], Filed(h0, recs, bs[1])), bs[1],
                     Filed(h0, recs, bs[1]))
         ELSE hh,
         h0, recs, Tail(bs))

\* update() that returns once the records are folded
ScrollBlot_updateNoOptimize(hh) ==
  IF hh.err # NoErr THEN hh
  ELSE LET t == takeRecords([hh EXCEPT !.hostPending = FALSE,
                                      !.folded = Len(hh.recs)])
           bs == Affected(t.h, t.r, {})
       IN The({Log(Log(IF Has(bs, RootBlot)
                       THEN ParentBlot_update(
                              Called(h1, RootBlot, Filed(t.h, t.r, RootBlot)),
                              RootBlot, Filed(t.h, t.r, RootBlot))
                       ELSE h1, "fold"), "update")
               : h1 \in {UpdateEach(t.h, t.h, t.r, bs)}})

\* ScrollBlot.update(mutations, context)
ScrollBlot_update(hh) ==
  IF hh.err # NoErr THEN hh
  ELSE LET t == takeRecords([hh EXCEPT !.hostPending = FALSE,
                                      !.folded = Len(hh.recs)])
           bs == Affected(t.h, t.r, {})
       IN The({Log(ScrollBlot_optimize(
                     Log(IF Has(bs, RootBlot)
                         THEN ParentBlot_update(
                                Called(h2, RootBlot, Filed(t.h, t.r, RootBlot)),
                                RootBlot, Filed(t.h, t.r, RootBlot))
                         ELSE h2, "fold"),
                     t.r), "update")
               : h2 \in {[UpdateEach(t.h, t.h, t.r, bs)
                            EXCEPT !.dirty = {t.h.blot[bs[i]].dom
                                                : i \in 1..Len(bs)}]}})

\* insertAt() that goes straight to the children
ScrollBlot_insertAtNoFold(hh, index, value) ==
  Log(ParentBlot_insertAt(hh, RootBlot, index, value), "insertAt")

\* ScrollBlot.insertAt(index, text)
ScrollBlot_insertAt(hh, index, value) ==
  Log(ParentBlot_insertAt(ScrollBlot_update(hh), RootBlot, index, value),
      "insertAt")

RECURSIVE RemoveEach(_, _)
RemoveEach(hh, cur) ==
  IF cur = Null \/ hh.err # NoErr THEN hh
  ELSE RemoveEach(remove(hh, cur), hh.blot[cur].next)

\* ScrollBlot.deleteAt(index, length)
ScrollBlot_deleteAt(hh, index, length_) ==
  The({IF h1.err # NoErr THEN h1
       ELSE Log(IF index = 0 /\ length_ = length(h1, RootBlot)
                THEN RemoveEach(h1, h1.blot[RootBlot].head)
                ELSE ParentBlot_deleteAt(h1, RootBlot, index, length_),
                "deleteAt")
       : h1 \in {ScrollBlot_update(hh)}})

\* ScrollBlot.formatAt(index, length, name, value)
ScrollBlot_formatAt(hh, index, length_, name, value) ==
  Log(ParentBlot_formatAt(ScrollBlot_update(hh), RootBlot, index, length_,
                          name, value), "formatAt")


\* ------------------------------------------------------- garbage collection
\* Objects no reference reaches are dropped at the end of an operation, as the
\* JavaScript heap drops them; the identity table is a WeakMap and keeps an
\* entry only while its host node is alive. Before they go, h.found keeps
\* the blots the operation detached that their host node still finds, and
\* h.detached becomes their number.

RecNodes(recs) ==
  UNION {{recs[i].target, recs[i].previousSibling} \cup Range(recs[i].addedNodes)
         \cup Range(recs[i].removedNodes) : i \in 1..Len(recs)} \ {Null}

RECURSIVE Alive(_, _, _)
Alive(hh, ds, bs) ==
  LET ds1 == (ds \cup {hh.dom[n].parent : n \in ds}
                 \cup UNION {Range(hh.dom[n].kids) : n \in ds}
                 \cup {hh.blot[b].dom : b \in bs}) \ {Null, Body}
      bs1 == (bs \cup {hh.tbl[n] : n \in ds \cap DOMAIN hh.tbl}
                 \cup UNION {{hh.blot[b].parent, hh.blot[b].prev, hh.blot[b].next,
                              hh.blot[b].head, hh.blot[b].tail} : b \in bs})
             \ {Null}
  IN IF ds1 = ds /\ bs1 = bs THEN [d |-> ds, b |-> bs] ELSE Alive(hh, ds1, bs1)

\* a children list whose walk never ends: the engine's loops over it hang
Cyclic(hh) ==
  \E b \in DOMAIN hh.blot : Len(Chain(hh, hh.blot[b].head, Fuel(hh))) = Fuel(hh)

Collect(hh) ==
  LET a == Alive(hh, {RootDom} \cup RecNodes(hh.recs), {RootBlot}) IN
  [hh EXCEPT !.err = IF hh.err = NoErr /\ Cyclic(hh) THEN "Hang" ELSE hh.err,
             !.dom = [n \in a.d |-> hh.dom[n]],
             !.blot = [b \in a.b |-> hh.blot[b]],
             !.tbl = [n \in a.d \cap DOMAIN hh.tbl |-> hh.tbl[n]],
             !.dirty = {},
             !.found = {p \in hh.detached : Registry_find(hh, p[2], FALSE) = p[1]},
             !.detached = {},
             !.nDetached = Cardinality(hh.detached)]

\* the start of an operation: the last operation's log is forgotten
Begin(hh) ==
  [hh EXCEPT !.log = <<>>, !.passes = 0, !.detached = {}, !.found = {},
             !.nDetached = 0, !.folded = 0,
             !.merged = <<>>, !.made = {}, !.calls = <<>>, !.adds = <<>>,
             !.ret = NoRet]

\* an exception leaves the tree as the throw found it; nothing is modelled
\* after it
Running == h.err = NoErr

\* ------------------------------------------------------------ derived views

\* the host nodes below a host node, itself included
RECURSIVE TreeNodes(_, _)
TreeNodes(hh, n) ==
  {n} \cup UNION {TreeNodes(hh, hh.dom[n].kids[i]) : i \in 1..Len(hh.dom[n].kids)}

Elements(hh) ==
  {n \in TreeNodes(hh, RootDom) : hh.dom[n].tag # "#text"}

TextNodes(hh) ==
  {n \in TreeNodes(hh, RootDom) : hh.dom[n].tag = "#text"}

\* ------------------------------------------------------------------- state

InitHeap ==
  [dom |-> (RootDom :> [NewNode("DIV", <<>>, "") EXCEPT !.parent = Body]),
   blot |-> (RootBlot :> NewBlot("scroll", RootDom)),
   tbl |-> (RootDom :> RootBlot),
   recs |-> <<>>, err |-> NoErr, log |-> <<>>, passes |-> 0, dirty |-> {},
   hostPending |-> FALSE, detached |-> {}, found |-> {}, nDetached |-> 0,
   folded |-> 0, merged |-> <<>>, made |-> {}, calls |-> <<>>,
   adds |-> <<>>, ret |-> NoRet]

Init ==
  /\ h = InitHeap
  /\ lastOp = "init"
  /\ nHost = 0
  /\ nApp = 0
  /\ opt = [pc |-> "off", e |-> 0, o |-> 0]

\* ------------------------------------------------------- the host's actions
\* What the host environment (a user edit, a script) does to the host tree
\* behind the engine's back; the observer queues the records.

Host(hh) == Collect([hh EXCEPT !.hostPending = TRUE])

HostTags == {"P", "SPAN", "#text"}

CanHost == Running /\ nHost < MaxHost /\ Len(h.recs) < MaxPending

\* the nodes the host builds before it inserts them: a node of the tag, the
\* SPAN inside it when deep, and the text node innermost
HostFragment(hh, tag, c, deep) ==
  The({
    The({IF tag = "#text" THEN h2
         ELSE Node_insertBefore(createNode(h2, "#text", <<"a">>, ""),
                                IF deep THEN Fresh(h1.dom) ELSE Fresh(hh.dom),
                                Fresh(h2.dom), Null)
         : h2 \in {IF ~deep THEN h1
                   ELSE Node_insertBefore(createNode(h1, "SPAN", <<>>, c),
                                          Fresh(hh.dom), Fresh(h1.dom), Null)}})
    : h1 \in {createNode(hh, tag, IF tag = "#text" THEN <<"a">> ELSE <<>>,
                         IF tag = "SPAN" THEN c ELSE "")}})

\* a new node goes before ref: a text node, or an element that holds a text
\* node, or a SPAN that holds a SPAN of its colour that holds a text node
HostInsert ==
  /\ CanHost
  /\ \E p \in Elements(h), tag \in HostTags, c \in {"", "red"}, deep \in BOOLEAN :
     \E i \in 1..(Len(h.dom[p].kids) + 1) :
       /\ (tag # "SPAN") => (c = "" /\ ~deep)
       /\ Cardinality(DOMAIN h.dom)
            + (IF tag = "#text" THEN 1 ELSE IF deep THEN 3 ELSE 2) <= MaxDom
       /\ h' = Host(Node_insertBefore(
                      HostFragment(Begin(h), tag, c, deep), p, Fresh(h.dom),
                      IF i > Len(h.dom[p].kids) THEN Null ELSE h.dom[p].kids[i]))
  /\ lastOp' = "hostInsert"
  /\ nHost' = nHost + 1
  /\ UNCHANGED <<nApp, opt>>

\* an element of a tag no descriptor is registered for (FONT), holding the
\* text "b"
UnknownFragment(hh) ==
  The({Node_insertBefore(createNode(h1, "#text", <<"b">>, ""),
                         Fresh(hh.dom), Fresh(h1.dom), Null)
       : h1 \in {createNode(hh, "FONT", <<>>, "")}})

\* the host puts an element of an unregistered tag into a paragraph
HostInsertUnknown ==
  /\ CanHost
  /\ \E p \in Elements(h) :
     \E i \in 1..(Len(h.dom[p].kids) + 1) :
       /\ h.dom[p].tag = "P"
       /\ Cardinality(DOMAIN h.dom) + 2 <= MaxDom
       /\ h' = Host(Node_insertBefore(
                      UnknownFragment(Begin(h)), p, Fresh(h.dom),
                      IF i > Len(h.dom[p].kids) THEN Null ELSE h.dom[p].kids[i]))
  /\ lastOp' = "hostInsertUnknown"
  /\ nHost' = nHost + 1
  /\ UNCHANGED <<nApp, opt>>

HostRemove ==
  /\ CanHost
  /\ \E n \in TreeNodes(h, RootDom) \ {RootDom} :
       h' = Host(Node_removeChild(Begin(h), h.dom[n].parent, n))
  /\ lastOp' = "hostRemove"
  /\ nHost' = nHost + 1
  /\ UNCHANGED <<nApp, opt>>

HostMove ==
  /\ CanHost
  /\ \E n \in TreeNodes(h, RootDom) \ {RootDom}, p \in Elements(h) :
     \E i \in 1..(Len(h.dom[p].kids) + 1) :
       LET ref == IF i > Len(h.dom[p].kids) THEN Null ELSE h.dom[p].kids[i]
       IN /\ p \notin TreeNodes(h, n)
          /\ ref # n
          /\ ~(h.dom[n].parent = p /\ nextSibling(h, n) = ref)
          /\ h' = Host(Node_insertBefore(Begin(h), p, n, ref))
  /\ lastOp' = "hostMove"
  /\ nHost' = nHost + 1
  /\ UNCHANGED <<nApp, opt>>

HostSetData ==
  /\ CanHost
  /\ \E n \in TextNodes(h), c \in Chars :
       /\ Len(h.dom[n].data) < MaxText
       /\ h' = Host(Node_setData(Begin(h), n, Append(h.dom[n].data, c)))
  /\ lastOp' = "hostSetData"
  /\ nHost' = nHost + 1
  /\ UNCHANGED <<nApp, opt>>

HostSetAttribute ==
  /\ CanHost
  /\ \E n \in Elements(h) \ {RootDom}, c \in {"", "red"} :
       /\ h.dom[n].tag \in {"SPAN", "STRONG"}
       /\ h.dom[n].color # c
       /\ h' = Host(Node_setAttribute(Begin(h), n, c))
  /\ lastOp' = "hostSetAttribute"
  /\ nHost' = nHost + 1
  /\ UNCHANGED <<nApp, opt>>

\* ---------------------------------------------------- the application's calls

CanApp == Running /\ nApp < MaxApp /\ Cardinality(DOMAIN h.dom) <= MaxDom

\* root.update(), called by the observer's callback when it delivers the
\* queued records or by the application; with nothing queued update() is
\* optimize(), the action Optimize
Update ==
  /\ Running
  /\ h.recs # <<>>
  /\ h' = Collect(ScrollBlot_update(Begin(h)))
  /\ lastOp' = "update"
  /\ UNCHANGED <<nHost, nApp, opt>>

Optimize ==
  /\ Running
  /\ ~h.hostPending
  /\ h' = Collect(ScrollBlot_optimize(Begin(h), <<>>))
  /\ lastOp' = "optimize"
  /\ UNCHANGED <<nHost, nApp, opt>>

InsertAt ==
  /\ CanApp
  /\ \E index \in 0..length(h, RootBlot), c \in Chars :
       h' = Collect(ScrollBlot_insertAt(Begin(h), index, <<c>>))
  /\ lastOp' = "insertAt"
  /\ nApp' = nApp + 1
  /\ UNCHANGED <<nHost, opt>>

DeleteAt ==
  /\ CanApp
  /\ \E index \in 0..length(h, RootBlot) :
     \E len \in 1..(length(h, RootBlot) - index) :
       h' = Collect(ScrollBlot_deleteAt(Begin(h), index, len))
  /\ lastOp' = "deleteAt"
  /\ nApp' = nApp + 1
  /\ UNCHANGED <<nHost, opt>>

FormatAt ==
  /\ CanApp
  /\ \E index \in 0..length(h, RootBlot) :
     \E len \in 1..(length(h, RootBlot) - index) :
     \E f \in {<<"bold", "true">>, <<"bold", "">>, <<"color", "blue">>,
               <<"color", "">>} :
       h' = Collect(ScrollBlot_formatAt(Begin(h), index, len, f[1], f[2]))
  /\ lastOp' = "formatAt"
  /\ nApp' = nApp + 1
  /\ UNCHANGED <<nHost, opt>>

\* length() that folds the pending records first
LengthAfterFold ==
  /\ Running
  /\ h' = The({[h1 EXCEPT !.ret = length(h1, RootBlot)]
               : h1 \in {Collect(ScrollBlot_update(Begin(h)))}})
  /\ lastOp' = "length"
  /\ UNCHANGED <<nHost, nApp, opt>>

\* root.length(): a read; it takes no records and changes nothing
Length ==
  /\ Running
  /\ h' = [Begin(h) EXCEPT !.ret = length(h, RootBlot)]
  /\ lastOp' = "length"
  /\ UNCHANGED <<nHost, nApp, opt>>

\* blot.split(index) on a blot below the root
Split ==
  /\ CanApp
  /\ \E b \in TreeBlots(h, RootBlot) \ {RootBlot} :
     \E index \in 0..length(h, b) :
       h' = Collect(Log(split(Begin(h), b, index, FALSE).h, "split"))
  /\ lastOp' = "split"
  /\ nApp' = nApp + 1
  /\ UNCHANGED <<nHost, opt>>

Next ==
  \/ HostInsert
  \/ HostRemove
  \/ HostMove
  \/ HostSetData
  \/ HostSetAttribute
  \/ Update
  \/ Optimize
  \/ InsertAt
  \/ DeleteAt
  \/ FormatAt
  \/ Split

Spec == Init /\ [][Next]_vars

\* the host edits and the engine folds them while the application reads
NextRead ==
  \/ HostInsert
  \/ HostRemove
  \/ HostSetData
  \/ Update
  \/ InsertAt
  \/ Length

SpecRead == Init /\ [][NextRead]_vars


\* ------------------------------------------- the loop of ScrollBlot.optimize
\* One call of root optimize, pass by pass. opt.e is the loop counter and
\* opt.o the number of records the loop holds; what observer.takeRecords()
\* hands over after a pass depends on what the blots' optimize did to the host
\* tree, and is left open here.

\* optimize(mutations, context) is entered: the records passed in and those
\* taken from the observer
OptEnter ==
  /\ opt.pc # "loop"
  /\ \E n \in 0..1 : opt' = [pc |-> "loop", e |-> 0, o |-> n]
  /\ lastOp' = "optEnter"
  /\ UNCHANGED <<h, nHost, nApp>>

\* the loop condition fails: optimize returns
OptReturn ==
  /\ opt.pc = "loop"
  /\ opt.o = 0
  /\ opt' = [opt EXCEPT !.pc = "returned"]
  /\ lastOp' = "optReturn"
  /\ UNCHANGED <<h, nHost, nApp>>

\* the iteration bound is reached with records left: optimize throws
OptThrow ==
  /\ opt.pc = "loop"
  /\ opt.o > 0
  /\ Exhausted(opt.e)
  /\ opt' = [opt EXCEPT !.pc = "thrown"]
  /\ lastOp' = "optThrow"
  /\ UNCHANGED <<h, nHost, nApp>>

\* one pass: the records are marked, the children optimized, the observer's
\* records taken, the counter incremented
OptPass ==
  /\ opt.pc = "loop"
  /\ opt.o > 0
  /\ ~Exhausted(opt.e)
  /\ \E n \in 0..1 : opt' = [opt EXCEPT !.e = @ + 1, !.o = n]
  /\ lastOp' = "optPass"
  /\ UNCHANGED <<h, nHost, nApp>>

\* the application calls a blot below the root: blot.insertAt(index, text)
BlotInsertAt ==
  /\ CanApp
  /\ \E b \in {x \in TreeBlots(h, RootBlot) \ {RootBlot} : IsParent(h.blot[x].kind)} :
     \E index \in 0..length(h, b), c \in Chars :
       h' = Collect(Log(insertAt(Begin(h), b, index, <<c>>), "insertAt"))
  /\ lastOp' = "blotInsertAt"
  /\ nApp' = nApp + 1
  /\ UNCHANGED <<nHost, opt>>

\* blot.isolate(index, length) on a blot below the root; the index may lie
\* one past the blot's tail
Isolate ==
  /\ CanApp
  /\ \E b \in TreeBlots(h, RootBlot) \ {RootBlot} :
     \E index \in 0..(length(h, b) + 1), length_ \in 1..MaxText :
       h' = Collect(Log(isolate(Begin(h), b, index, length_).h, "isolate"))
  /\ lastOp' = "isolate"
  /\ nApp' = nApp + 1
  /\ UNCHANGED <<nHost, opt>>

\* registry.query(name, mask) and registry.query(scope, mask) for every mask
Masks == 0..ANY

QueryName ==
  /\ \E name \in BlotNames \cup AttrNames \cup {"video"}, mask \in Masks :
       h' = [Begin(h) EXCEPT !.ret = [by |-> "name", name |-> name, scope |-> 0,
                                      mask |-> mask,
                                      r |-> Registry_queryName(name, mask)]]
  /\ lastOp' = "query"
  /\ UNCHANGED <<nHost, nApp, opt>>

QueryScope ==
  /\ \E n \in Masks, mask \in Masks :
       h' = [Begin(h) EXCEPT !.ret = [by |-> "scope", name |-> "", scope |-> n,
                                      mask |-> mask,
                                      r |-> Registry_queryScope(n, mask)]]
  /\ lastOp' = "query"
  /\ UNCHANGED <<nHost, nApp, opt>>

NextQuery ==
  \/ QueryName
  \/ QueryScope

SpecQuery == Init /\ [][NextQuery]_vars

\* ------------------------------------------------------------------
\* A registry that definitions are registered with one by one: types by
\* name, classes by class marker, tags by tag name.  "" stands for a
\* definition without className.
Definitions ==
  {[blotName |-> "plain", tagName |-> "SPAN", className |-> "", scope |-> INLINE_BLOT],
   [blotName |-> "other", tagName |-> "SPAN", className |-> "", scope |-> INLINE_BLOT],
   [blotName |-> "mark", tagName |-> "SPAN", className |-> "x", scope |-> INLINE_BLOT],
   [blotName |-> "note", tagName |-> "SPAN", className |-> "y", scope |-> INLINE_BLOT]}

EmptyRegistry == [types |-> <<>>, classes |-> <<>>, tags |-> <<>>, order |-> <<>>]

\* register that keeps the tag for the definition that claimed it first
Registry_registerKeepsTag(reg, e) ==
  [types |-> Put(reg.types, e.blotName, e),
   classes |-> IF e.className # "" THEN Put(reg.classes, e.className, e)
               ELSE reg.classes,
   tags |-> IF e.tagName \in DOMAIN reg.tags THEN reg.tags
            ELSE Put(reg.tags, e.tagName, e),
   order |-> Append(reg.order, e)]

\* Registry.register(definition) for a blot definition with one tag name
Registry_register(reg, e) ==
  [types |-> Put(reg.types, e.blotName, e),
   classes |-> IF e.className # "" THEN Put(reg.classes, e.className, e)
               ELSE reg.classes,
   tags |-> IF e.tagName \in DOMAIN reg.tags /\ e.className # "" THEN reg.tags
            ELSE Put(reg.tags, e.tagName, e),
   order |-> Append(reg.order, e)]

\* Registry.query(element, ANY): the definition of the first class of the
\* element that is registered, else the definition of its tag
Registry_queryElement(reg, tag, classes, mask) ==
  LET known == SelectSeq(classes, LAMBDA c : c \in DOMAIN reg.classes)
      ds == IF known # <<>> THEN <<reg.classes[known[1]]>>
            ELSE IF tag \in DOMAIN reg.tags THEN <<reg.tags[tag]>>
            ELSE <<>>
  IN IF ds = <<>> THEN NoDesc
     ELSE IF BitAnd(BitAnd(mask, LEVEL), ds[1].scope) # 0
             /\ BitAnd(BitAnd(mask, TYPE), ds[1].scope) # 0
     THEN ds[1].blotName ELSE NoDesc

InitRegistry ==
  /\ h = [InitHeap EXCEPT !.ret = [reg |-> EmptyRegistry, classes |-> <<>>,
                                   r |-> NoDesc]]
  /\ lastOp = "init"
  /\ nHost = 0
  /\ nApp = 0
  /\ opt = [pc |-> "off", e |-> 0, o |-> 0]

Register ==
  /\ Len(h.ret.reg.order) < MaxRegs
  /\ \E e \in Definitions :
       /\ e.blotName \notin DOMAIN h.ret.reg.types
       /\ h' = [h EXCEPT !.ret = [reg |-> Registry_register(h.ret.reg, e),
                                  classes |-> <<>>, r |-> NoDesc]]
  /\ lastOp' = "register"
  /\ UNCHANGED <<nHost, nApp, opt>>

\* query on a SPAN element carrying the given class markers
QueryElement ==
  /\ \E classes \in {<<>>, <<"z">>, <<"x">>, <<"z", "y">>} :
       h' = [h EXCEPT !.ret.classes = classes,
                      !.ret.r = Registry_queryElement(h.ret.reg, "SPAN", classes, ANY)]
  /\ lastOp' = "queryElement"
  /\ UNCHANGED <<nHost, nApp, opt>>

NextRegistry ==
  \/ Register
  \/ QueryElement

SpecRegistry == InitRegistry /\ [][NextRegistry]_vars

\* ------------------------------------------------------------------
\* An attributor with a whitelist, on one element, and the attribute store
\* of that element.  A value is a string, kept as its sequence of
\* characters; the element's attributes map a key to its value.
ValueChars == {"l", "c", "'"}

Values == UNION {[1..n -> ValueChars] : n \in 0..MaxValueLen}

Quotes == {"'", "\""}

Whitelist == {<<"l">>, <<"l", "c">>}

KeyName == "align"

\* value.replace(/["']/g, "")
StripQuotes(v) == SelectSeq(v, LAMBDA c : c \notin Quotes)

\* canAdd that compares the value as it was given
Attributor_canAddExact(v) == v \in Whitelist

\* Attributor.canAdd(node, value) of an attributor with a whitelist
Attributor_canAdd(v) == StripQuotes(v) \in Whitelist

\* Attributor.add(node, value) of the whitelisted attributor: the attributes
\* afterwards and the returned boolean
WlAttributor_add(attrs, v) ==
  IF Attributor_canAdd(v) THEN [attrs |-> Put(attrs, KeyName, v), r |-> TRUE]
  ELSE [attrs |-> attrs, r |-> FALSE]

\* Attributor.remove(node) of the whitelisted attributor
WlAttributor_remove(attrs) == Drop(attrs, KeyName)

\* Attributor.value(node) of the whitelisted attributor
WlAttributor_value(attrs) ==
  IF KeyName \in DOMAIN attrs /\ Attributor_canAdd(attrs[KeyName])
     /\ attrs[KeyName] # <<>>
  THEN attrs[KeyName] ELSE <<>>

\* AttributorStore.attribute(attributor, value) with the whitelisted
\* attributor: a falsy value removes, any other is added and, when the add
\* succeeded, recorded
WlStore_attribute(st, v) ==
  IF v # <<>>
  THEN LET a == WlAttributor_add(st.attrs, v) IN
       [attrs |-> a.attrs,
        store |-> IF a.r THEN st.store \cup {KeyName} ELSE st.store]
  ELSE [attrs |-> WlAttributor_remove(st.attrs), store |-> st.store \ {KeyName}]

InitAttr ==
  /\ h = [InitHeap EXCEPT !.ret = [attrs |-> <<>>, store |-> {}, v |-> <<>>,
                                   r |-> FALSE]]
  /\ lastOp = "init"
  /\ nHost = 0
  /\ nApp = 0
  /\ opt = [pc |-> "off", e |-> 0, o |-> 0]

\* attributor.add(node, v)
AttrAdd ==
  /\ \E v \in Values :
       LET a == WlAttributor_add(h.ret.attrs, v) IN
       h' = [h EXCEPT !.ret = [attrs |-> a.attrs, store |-> h.ret.store,
                               v |-> v, r |-> a.r]]
  /\ lastOp' = "add"
  /\ UNCHANGED <<nHost, nApp, opt>>

\* attributor.remove(node)
AttrRemove ==
  /\ h' = [h EXCEPT !.ret = [attrs |-> WlAttributor_remove(h.ret.attrs),
                             store |-> h.ret.store, v |-> <<>>, r |-> FALSE]]
  /\ lastOp' = "remove"
  /\ UNCHANGED <<nHost, nApp, opt>>

\* store.attribute(attributor, v)
StoreAttribute ==
  /\ \E v \in Values :
       LET st == WlStore_attribute(h.ret, v) IN
       h' = [h EXCEPT !.ret = [attrs |-> st.attrs, store |-> st.store,
                               v |-> v, r |-> FALSE]]
  /\ lastOp' = "attribute"
  /\ UNCHANGED <<nHost, nApp, opt>>

NextAttr ==
  \/ AttrAdd
  \/ AttrRemove
  \/ StoreAttribute

SpecAttr == InitAttr /\ [][NextAttr]_vars

\* ------------------------------------------------------------------
\* The class attributor on one element.  The element's class list is a
\* sequence of distinct tokens, a token its sequence of characters.
ClassKey == <<"k">>

ClassValues == {<<>>, <<"l">>, <<"c">>, <<"l", "c">>}

ClassWhitelist == {<<"l">>, <<"c">>}

\* tokens the host may write into the class attribute
HostTokens == {<<"o">>, <<"k">>, <<"k", "-", "l">>, <<"k", "-", "x">>}

ClassLists ==
  {cs \in UNION {[1..n -> HostTokens] : n \in 0..MaxTokens} :
     \A i, j \in 1..Len(cs) : cs[i] = cs[j] => i = j}

\* 0 === token.indexOf(prefix)
StartsWith(t, p) == Len(t) >= Len(p) /\ SubSeq(t, 1, Len(p)) = p

\* the helper under ClassAttributor: the tokens that begin with keyName-
Prefixed(classes) ==
  SelectSeq(classes, LAMBDA t : StartsWith(t, ClassKey \o <<"-">>))

\* classList.add(token)
ClassList_add(classes, t) ==
  IF \E i \in 1..Len(classes) : classes[i] = t THEN classes
  ELSE Append(classes, t)

\* ClassAttributor.canAdd(node, value): the class attributor's whitelist
ClassAttributor_canAdd(v) == StripQuotes(v) \in ClassWhitelist

\* ClassAttributor.remove(node): every token with the prefix leaves
ClassAttributor_remove(classes) ==
  SelectSeq(classes, LAMBDA t : ~StartsWith(t, ClassKey \o <<"-">>))

\* add that leaves the tokens already present in place
ClassAttributor_addKeeps(classes, v) ==
  IF ClassAttributor_canAdd(v)
  THEN [classes |-> ClassList_add(classes, ClassKey \o <<"-">> \o v), r |-> TRUE]
  ELSE [classes |-> classes, r |-> FALSE]

\* ClassAttributor.add(node, value)
ClassAttributor_add(classes, v) ==
  IF ClassAttributor_canAdd(v)
  THEN [classes |-> ClassList_add(ClassAttributor_remove(classes),
                                  ClassKey \o <<"-">> \o v),
        r |-> TRUE]
  ELSE [classes |-> classes, r |-> FALSE]

\* ClassAttributor.value(node)
ClassAttributor_value(classes) ==
  LET ts == Prefixed(classes)
      e == IF ts = <<>> THEN <<>>
           ELSE SubSeq(ts[1], Len(ClassKey) + 2, Len(ts[1]))
  IN IF ClassAttributor_canAdd(e) THEN e ELSE <<>>

InitClass ==
  /\ h = [InitHeap EXCEPT !.ret = [classes |-> <<>>, v |-> <<>>, r |-> FALSE,
                                   before |-> 0]]
  /\ lastOp = "init"
  /\ nHost = 0
  /\ nApp = 0
  /\ opt = [pc |-> "off", e |-> 0, o |-> 0]

\* the host writes the element's class attribute
HostSetClass ==
  /\ \E cs \in ClassLists :
       h' = [h EXCEPT !.ret = [classes |-> cs, v |-> <<>>, r |-> FALSE,
                               before |-> Len(Prefixed(h.ret.classes))]]
  /\ lastOp' = "hostClass"
  /\ UNCHANGED <<nHost, nApp, opt>>

\* attributor.add(node, v)
ClassAdd ==
  /\ \E v \in ClassValues :
       LET a == ClassAttributor_add(h.ret.classes, v) IN
       h' = [h EXCEPT !.ret = [classes |-> a.classes, v |-> v, r |-> a.r,
                               before |-> Len(Prefixed(h.ret.classes))]]
  /\ lastOp' = "classAdd"
  /\ UNCHANGED <<nHost, nApp, opt>>

\* attributor.remove(node)
ClassRemove ==
  /\ h' = [h EXCEPT !.ret = [classes |-> ClassAttributor_remove(h.ret.classes),
                             v |-> <<>>, r |-> FALSE,
                             before |-> Len(Prefixed(h.ret.classes))]]
  /\ lastOp' = "classRemove"
  /\ UNCHANGED <<nHost, nApp, opt>>

NextClass ==
  \/ HostSetClass
  \/ ClassAdd
  \/ ClassRemove

SpecClass == InitClass /\ [][NextClass]_vars

\* ShadowBlot.offset(root): the summed offsets of the blot and its ancestors
\* within their parents
RECURSIVE ShadowBlot_offset(_, _, _)
ShadowBlot_offset(hh, b, root) ==
  IF hh.blot[b].parent = Null \/ b = root THEN 0
  ELSE LinkedList_offset(hh, hh.blot[b].parent, b)
       + ShadowBlot_offset(hh, hh.blot[b].parent, root)

\* path that looks every child up with the inclusive end
RECURSIVE ParentBlot_pathInclusive(_, _, _, _)
ParentBlot_pathInclusive(hh, b, index, inclusive) ==
  LET f == LinkedList_find(hh, b, index, TRUE) IN
  IF f[1] = Null THEN <<<<b, index>>>>
  ELSE IF IsParent(hh.blot[f[1]].kind)
  THEN <<<<b, index>>>> \o ParentBlot_pathInclusive(hh, f[1], f[2], inclusive)
  ELSE <<<<b, index>>, <<f[1], f[2]>>>>

\* ParentBlot.path(index, inclusive): the pairs (blot, offset within it) from
\* this blot down
RECURSIVE ParentBlot_path(_, _, _, _)
ParentBlot_path(hh, b, index, inclusive) ==
  LET f == LinkedList_find(hh, b, index, inclusive) IN
  IF f[1] = Null THEN <<<<b, index>>>>
  ELSE IF IsParent(hh.blot[f[1]].kind)
  THEN <<<<b, index>>>> \o ParentBlot_path(hh, f[1], f[2], inclusive)
  ELSE <<<<b, index>>, <<f[1], f[2]>>>>

\* root.path(offset, inclusive)
Path ==
  /\ Running
  /\ \E offset \in 0..(length(h, RootBlot) + 1), inclusive \in BOOLEAN :
       h' = [Begin(h) EXCEPT !.ret =
               [offset |-> offset, inclusive |-> inclusive,
                path |-> ParentBlot_path(h, RootBlot, offset, inclusive)]]
  /\ lastOp' = "path"
  /\ UNCHANGED <<nHost, nApp, opt>>

NextPath ==
  \/ HostInsert
  \/ Update
  \/ InsertAt
  \/ Path

SpecPath == Init /\ [][NextPath]_vars

\* ------------------------------------------------------------------
\* The keydown listener of the keyboard module over a document of lines.
\* A line has a kind (its blotName; "table" is a line inside a table cell), a
\* span that counts its newline, and a list format; an image grid also
\* has a fake cursor.  The selection is (index, length).  What a binding does
\* through the editor (format, deleteText, setSelection) is the editor's and
\* is left out; the listener's result records the handlers that ran, the
\* showFakeCursor calls, the line a handler removed and preventDefault.
LineKinds ==
  {[kind |-> "block", len |-> 1, list |-> FALSE, cursor |-> "none"],
   [kind |-> "block", len |-> 2, list |-> FALSE, cursor |-> "none"],
   [kind |-> "block", len |-> 1, list |-> TRUE, cursor |-> "none"],
   [kind |-> "image-grid", len |-> 1, list |-> FALSE, cursor |-> "none"],
   [kind |-> "image", len |-> 1, list |-> FALSE, cursor |-> "none"],
   [kind |-> "table", len |-> 1, list |-> FALSE, cursor |-> "none"]}

Documents == UNION {[1..n -> LineKinds] : n \in 1..MaxLines}

Keys == {"ArrowLeft", "ArrowRight", "ArrowUp", "ArrowDown", "Backspace"}

\* Keyboard.DEFAULTS.bindings and the constructor's bindings, in the order
\* in which addBinding pushed them, for an event without modifier keys
BindingsOf(key) ==
  CASE key = "ArrowLeft" -> <<"arrow left", "embed left">>
    [] key = "ArrowRight" -> <<"arrow right", "embed right">>
    [] key = "ArrowUp" -> <<"list arrow up", "arrow up", "table up">>
    [] key = "ArrowDown" -> <<"arrow down", "table down">>
    [] OTHER -> <<"outdent backspace", "table backspace",
                  "table backspace not collapsed", "backspace",
                  "handleBackspace", "handleDeleteRange",
                  "handleBackspace at offset 0">>

RECURSIVE DocLength(_)
DocLength(lines) ==
  IF lines = <<>> THEN 0 ELSE lines[1].len + DocLength(Tail(lines))

\* the start offset of line i
LineStart(lines, i) == DocLength(SubSeq(lines, 1, i - 1))

\* quill.getLine(index): the number of the line that holds the index, found
\* as LinkedList.find does (the first line whose end lies past the index); an
\* index at or past the document's end gives the last line
Quill_getLine(lines, index) ==
  IF index >= DocLength(lines) THEN Len(lines)
  ELSE CHOOSE i \in 1..Len(lines) :
         /\ index < LineStart(lines, i) + lines[i].len
         /\ \A j \in 1..(i - 1) : index >= LineStart(lines, j) + lines[j].len

\* line.prev and line.next, 0 for null: the lines of a table cell are
\* siblings of each other only
LinePrev(lines, i) ==
  IF i > 1 /\ (lines[i].kind = "table" => lines[i - 1].kind = "table")
  THEN i - 1 ELSE 0

LineNext(lines, i) ==
  IF i < Len(lines) /\ (lines[i].kind = "table" => lines[i + 1].kind = "table")
  THEN i + 1 ELSE 0

\* quill.getLeaf(index) instanceof EmbedBlot: the line of the index is an
\* embed of its own
LeafIsEmbed(lines, index) ==
  lines[Quill_getLine(lines, index)].kind \in {"image-grid", "image"}

\* curContext of the listener
CurContext(lines, index, span) ==
  LET i == Quill_getLine(lines, index)
      off == index - LineStart(lines, i)
      j == Quill_getLine(lines, index + span)
  IN [line |-> i,
      offset |-> off,
      collapsed |-> span = 0,
      empty |-> span = 0 /\ lines[i].len <= 1,
      table |-> lines[i].kind = "table",
      list |-> lines[i].list,
      prefix |-> IF lines[i].kind = "block" /\ lines[i].len > 1 THEN off ELSE 0,
      suffix |-> IF lines[j].kind = "block" /\ lines[j].len > 1
                 THEN lines[j].len - 1 - (index + span - LineStart(lines, j))
                 ELSE 0]

\* the tests of the listener on a binding's collapsed, empty, offset, format,
\* prefix and suffix
BindingApplies(name, ctx) ==
  CASE name = "arrow left" -> ctx.collapsed /\ ctx.offset = 0
    [] name = "arrow right" -> ctx.collapsed
    [] name = "embed left" -> ctx.prefix = 0
    [] name = "embed right" -> ctx.suffix = 0
    [] name = "list arrow up" -> ctx.list
    [] name \in {"arrow up", "arrow down"} -> TRUE
    [] name \in {"table up", "table down"} -> ctx.collapsed /\ ctx.table
    [] name = "outdent backspace" -> ctx.collapsed /\ ctx.list /\ ctx.offset = 0
    [] name = "table backspace" -> ctx.collapsed /\ ctx.table /\ ctx.offset = 0
    [] name = "table backspace not collapsed" -> ~ctx.empty /\ ~ctx.collapsed
    [] name = "backspace" -> ctx.collapsed
    [] name = "handleBackspace" -> ctx.collapsed /\ ctx.prefix <= 1
    [] name = "handleDeleteRange" -> ~ctx.collapsed
    [] OTHER -> ctx.collapsed /\ ctx.offset = 0

NoCalls == <<>>

Call(line, arg) == <<[line |-> line, arg |-> arg]>>

\* what a handler hands back: whether it returned true, the showFakeCursor
\* calls it made (on a line, or on the table wrapper of a line), and the line
\* it removed
Handled(ok, calls, removed) == [ok |-> ok, calls |-> calls, removed |-> removed]

\* the handler of the arrow left and backspace bindings outside a table,
\* with the argument of the image grid's call left out
PrevLineHandlerDefaultArg(lines, index, ctx, removes) ==
  LET p == Quill_getLine(lines, index - 1)
      gone == IF removes /\ lines[ctx.line].len = 1 THEN ctx.line ELSE 0
  IN CASE lines[p].kind = "table" -> Handled(FALSE, Call(p, "false"), gone)
       [] lines[p].kind = "image-grid" -> Handled(FALSE, Call(p, "default"), gone)
       [] lines[p].kind = "image" -> Handled(FALSE, Call(p, "false"), gone)
       [] OTHER -> Handled(TRUE, NoCalls, 0)

\* the handler of the arrow left and backspace bindings outside a table: the
\* line before the cursor is looked up
PrevLineHandler(lines, index, ctx, removes) ==
  LET p == Quill_getLine(lines, index - 1)
      gone == IF removes /\ lines[ctx.line].len = 1 THEN ctx.line ELSE 0
  IN CASE lines[p].kind = "table" -> Handled(FALSE, Call(p, "false"), gone)
       [] lines[p].kind = "image-grid" -> Handled(FALSE, Call(p, "-1"), gone)
       [] lines[p].kind = "image" -> Handled(FALSE, Call(p, "false"), gone)
       [] OTHER -> Handled(TRUE, NoCalls, 0)

\* the handler of the arrow up and arrow down bindings on line.prev or
\* line.next
SiblingHandler(lines, t) ==
  IF t # 0 /\ lines[t].kind \in {"image-grid", "image"}
  THEN Handled(FALSE, Call(t, "default"), 0)
  ELSE Handled(TRUE, NoCalls, 0)

\* binding.handler.call(this, range, curContext, binding)
Binding_handler(name, lines, index, span, ctx) ==
  CASE name = "arrow left" ->
         IF ctx.table
         THEN IF LinePrev(lines, ctx.line) = 0
              THEN Handled(FALSE, Call(ctx.line, "default"), 0)
              ELSE Handled(TRUE, NoCalls, 0)
         ELSE PrevLineHandler(lines, index, ctx, FALSE)
    [] name = "backspace" ->
         IF ctx.table THEN Handled(TRUE, NoCalls, 0)
         ELSE PrevLineHandler(lines, index, ctx, TRUE)
    [] name = "arrow right" ->
         IF ctx.table
         THEN IF LineNext(lines, ctx.line) = 0
                 /\ ctx.offset = lines[ctx.line].len - 1
              THEN Handled(FALSE, Call(ctx.line, "false"), 0)
              ELSE Handled(TRUE, NoCalls, 0)
         ELSE LET n == Quill_getLine(lines, index + 1) IN
              IF lines[n].kind \in {"table", "image-grid", "image"}
              THEN Handled(FALSE, Call(n, "default"), 0)
              ELSE Handled(TRUE, NoCalls, 0)
    [] name = "list arrow up" -> Handled(ctx.line # 1, NoCalls, 0)
    [] name = "arrow up" -> SiblingHandler(lines, LinePrev(lines, ctx.line))
    [] name = "arrow down" -> SiblingHandler(lines, LineNext(lines, ctx.line))
    [] name = "embed left" ->
         IF ~LeafIsEmbed(lines, index) THEN Handled(TRUE, NoCalls, 0)
         ELSE IF lines[Quill_getLine(lines, index)].kind = "image"
         THEN Handled(FALSE, Call(Quill_getLine(lines, index), "false"), 0)
         ELSE Handled(FALSE, NoCalls, 0)
    [] name = "embed right" ->
         IF ~LeafIsEmbed(lines, index + span + 1) THEN Handled(TRUE, NoCalls, 0)
         ELSE IF lines[Quill_getLine(lines, index + span + 1)].kind = "image"
         THEN Handled(FALSE,
                      Call(Quill_getLine(lines, index + span + 1), "false"), 0)
         ELSE Handled(FALSE, NoCalls, 0)
    [] name = "table backspace" ->
         Handled(LinePrev(lines, ctx.line) # 0, NoCalls, 0)
    [] name = "table backspace not collapsed" ->
         Handled(ctx.table
                   = (lines[Quill_getLine(lines, index + span)].kind = "table"),
                 NoCalls, 0)
    [] OTHER -> Handled(FALSE, NoCalls, 0)

\* ImageGrid.showFakeCursor(index) and the wrapper's and the image's: where
\* the cursor is shown
ShowFakeCursor(lines, calls) ==
  [i \in 1..Len(lines) |->
     IF \E c \in 1..Len(calls) : calls[c].line = i
     THEN [lines[i] EXCEPT !.cursor =
             IF lines[i].kind = "image-grid" /\ calls[1].arg = "-1"
             THEN "calc(100% + 5px)" ELSE "-5px"]
     ELSE lines[i]]

\* matches.some(binding => ...): the bindings in order until a handler
\* returns something other than true
RECURSIVE Keyboard_some(_, _, _, _, _, _)
Keyboard_some(names, lines, index, span, ctx, acc) ==
  IF names = <<>> THEN acc
  ELSE IF ~BindingApplies(names[1], ctx)
  THEN Keyboard_some(Tail(names), lines, index, span, ctx, acc)
  ELSE LET r == Binding_handler(names[1], lines, index, span, ctx)
           next == [ran |-> Append(acc.ran, names[1]),
                    calls |-> acc.calls \o r.calls,
                    removed |-> r.removed,
                    prevented |-> ~r.ok]
       IN IF r.ok
          THEN Keyboard_some(Tail(names), lines, index, span, ctx, next)
          ELSE next

\* the keydown listener
Keyboard_listen(lines, index, span, key) ==
  Keyboard_some(BindingsOf(key), lines, index, span,
                CurContext(lines, index, span),
                [ran |-> <<>>, calls |-> <<>>, removed |-> 0, prevented |-> FALSE])

InitKeys ==
  /\ \E lines \in Documents :
     \E index \in 0..(DocLength(lines) - 1) :
     \E span \in 0..1 :
       /\ index + span <= DocLength(lines) - 1
       /\ h = [InitHeap EXCEPT !.ret =
                 [lines |-> lines, index |-> index, length |-> span,
                  key |-> "none", ran |-> <<>>, calls |-> <<>>,
                  prevented |-> FALSE]]
  /\ lastOp = "init"
  /\ nHost = 0
  /\ nApp = 0
  /\ opt = [pc |-> "off", e |-> 0, o |-> 0]

\* a keydown event without modifier keys reaches the listener; a document
\* whose only line a handler removed gets no further key
KeyDown ==
  /\ h.ret.lines # <<>>
  /\ \E key \in Keys :
       LET r == Keyboard_listen(h.ret.lines, h.ret.index, h.ret.length, key)
           shown == ShowFakeCursor(h.ret.lines, r.calls)
       IN h' = [h EXCEPT !.ret =
                  [lines |-> IF r.removed = 0 THEN shown
                             ELSE RemoveAt(shown, r.removed),
                   index |-> h.ret.index, length |-> h.ret.length,
                   key |-> key, ran |-> r.ran, calls |-> r.calls,
                   prevented |-> r.prevented]]
  /\ lastOp' = "keydown"
  /\ UNCHANGED <<nHost, nApp, opt>>

NextKeys == KeyDown

SpecKeys == InitKeys /\ [][NextKeys]_vars

\* blot.remove() on a blot below the root
Remove ==
  /\ CanApp
  /\ \E b \in TreeBlots(h, RootBlot) \ {RootBlot} :
       h' = Collect(Log(remove(Begin(h), b), "remove"))
  /\ lastOp' = "remove"
  /\ nApp' = nApp + 1
  /\ UNCHANGED <<nHost, opt>>

\* blot.detach() on a blot below the root
Detach ==
  /\ CanApp
  /\ \E b \in TreeBlots(h, RootBlot) \ {RootBlot} :
       h' = Collect(Log(detach(Begin(h), b), "detach"))
  /\ lastOp' = "detach"
  /\ nApp' = nApp + 1
  /\ UNCHANGED <<nHost, opt>>

NextDetach ==
  \/ HostInsert
  \/ Update
  \/ Remove
  \/ Detach

SpecDetach == Init /\ [][NextDetach]_vars

\* blot.wrap(name, value) on a blot below the root
Wrap ==
  /\ CanApp
  /\ \E b \in TreeBlots(h, RootBlot) \ {RootBlot} :
     \E name \in {"block", "inline", "bold", "text"} :
       h' = Collect(Log(wrapName(Begin(h), b, name,
                                 IF name = "text" THEN <<"b">> ELSE "").h, "wrap"))
  /\ lastOp' = "wrap"
  /\ nApp' = nApp + 1
  /\ UNCHANGED <<nHost, opt>>

NextWrap ==
  \/ HostInsert
  \/ Update
  \/ Wrap

SpecWrap == Init /\ [][NextWrap]_vars

NextBlot ==
  \/ HostInsert
  \/ Update
  \/ InsertAt
  \/ BlotInsertAt
  \/ Split
  \/ Isolate

SpecBlot == Init /\ [][NextBlot]_vars

\* ------------------------------------------------------------------
\* Embed leaves: Registry.create(name, value) and LeafBlot.value().
\* A script value is a record: [t |-> "prim", p |-> literal] for a primitive
\* and [t |-> "obj", o |-> record] for an object.
Prim(lit) == [t |-> "prim", p |-> lit]
Obj(o) == [t |-> "obj", o |-> o]
JsTrue == Prim("true")
Undefined == Prim("undefined")

\* what || treats as false
Falsy(v) == v.t = "prim" /\ v.p \in {"false", "0", "''", "null", "undefined"}

\* JSON.stringify of an object: the members whose value is not undefined, in
\* the order of the keys
Members(o, keys) ==
  SelectSeq([i \in 1..Len(keys) |-> <<keys[i], o[keys[i]]>>],
            LAMBDA m : ~(m[2].t = "prim" /\ m[2].p = "undefined"))

\* JSON.parse of the members of an object
FromMembers(ms) ==
  [k \in {ms[i][1] : i \in 1..Len(ms)} |->
     ms[CHOOSE i \in 1..Len(ms) : ms[i][1] = k][2]]

ItemKeys == <<"image", "attributes">>
AttributeKeys == <<"ratio", "caption">>

\* JSON.stringify(data) for the data of an image grid
JSON_stringify(data) ==
  [i \in 1..Len(data) |->
     Members([image |-> data[i].image,
              attributes |-> [t |-> "members",
                              ms |-> Members(data[i].attributes, AttributeKeys)]],
             ItemKeys)]

JSON_parse(text) ==
  [i \in 1..Len(text) |->
     [k \in {text[i][j][1] : j \in 1..Len(text[i])} |->
        IF k = "attributes"
        THEN FromMembers(FromMembers(text[i])[k].ms)
        ELSE FromMembers(text[i])[k]]]

\* ImageGrid.create that stores the items without their attributes
ImageGrid_createBare(value) ==
  IF value.t # "obj" \/ "data" \notin DOMAIN value.o
  THEN [err |-> "TypeError", node |-> Null]
  ELSE IF value.o.data = <<>> THEN [err |-> "TypeError", node |-> Null]
  ELSE [err |-> NoErr,
        node |-> [tag |-> "DIV", class |-> "image-grid",
                  gridData |-> JSON_stringify(
                     [i \in 1..Len(value.o.data) |->
                        [image |-> value.o.data[i].image,
                         attributes |-> [ratio |-> Undefined,
                                         caption |-> Undefined]]]),
                  items |-> Len(value.o.data)]]

\* ImageGrid.create(value): the element with the data in its
\* image-grid-data attribute and one container per item; reading
\* firstElementChild of an empty wrapper throws
ImageGrid_create(value) ==
  IF value.t # "obj" \/ "data" \notin DOMAIN value.o
  THEN [err |-> "TypeError", node |-> Null]
  ELSE IF value.o.data = <<>> THEN [err |-> "TypeError", node |-> Null]
  ELSE [err |-> NoErr,
        node |-> [tag |-> "DIV", class |-> "image-grid",
                  gridData |-> JSON_stringify(value.o.data),
                  items |-> Len(value.o.data)]]

\* ImageGrid.value(domNode)
ImageGrid_value(node) == Obj([data |-> JSON_parse(node.gridData)])

\* ShadowBlot.create(value) of a type with one tag name: the value is not used
ShadowBlot_create(value) ==
  [err |-> NoErr, node |-> [tag |-> "HR", class |-> "", gridData |-> <<>>,
                            items |-> 0]]

\* LeafBlot.value(domNode), which a type inherits unless it defines its own
LeafBlot_staticValue(node) == JsTrue

\* the registered embed types: the image grid and a leaf that inherits its
\* statics
EmbedNames == {"image-grid", "rule"}

Statics_create(name, value) ==
  IF name = "image-grid" THEN ImageGrid_create(value) ELSE ShadowBlot_create(value)

Statics_value(name, node) ==
  IF name = "image-grid" THEN ImageGrid_value(node) ELSE LeafBlot_staticValue(node)

\* blot.value() of a leaf
LeafBlot_value(name, node) ==
  [n \in {name} |-> IF Falsy(Statics_value(name, node)) THEN JsTrue
                    ELSE Statics_value(name, node)]

\* the values handed to create
Images == {"http://a", "https://b"}
Ratios == {Prim("1"), Prim("2")}
Captions == {Prim("'c'"), Prim("''"), Undefined}
GridItems ==
  {[image |-> Prim(i), attributes |-> [ratio |-> r, caption |-> c]]
   : i \in Images, r \in Ratios, c \in Captions}
GridData ==
  {<<>>} \cup {<<a>> : a \in GridItems} \cup {<<a, b>> : a \in GridItems, b \in GridItems}
EmbedValues(name) ==
  IF name = "image-grid" THEN {Obj([data |-> d]) : d \in GridData}
  ELSE {Prim(l) : l \in {"true", "false", "0", "1", "''", "'x'"}}

\* scroll.create(name, value) for an embed type
CreateEmbed ==
  /\ Running
  /\ lastOp = "init"
  /\ \E name \in EmbedNames :
     \E value \in EmbedValues(name) :
       h' = [Begin(h) EXCEPT !.ret =
               The({[name |-> name, value |-> value, err |-> c.err,
                     node |-> c.node, read |-> Null]
                    : c \in {Statics_create(name, value)}})]
  /\ lastOp' = "createEmbed"
  /\ UNCHANGED <<nHost, nApp, opt>>

\* blot.value() on the embed created last
EmbedValue ==
  /\ Running
  /\ lastOp = "createEmbed"
  /\ h.ret.err = NoErr
  /\ h' = [h EXCEPT !.ret.read = LeafBlot_value(h.ret.name, h.ret.node)]
  /\ lastOp' = "embedValue"
  /\ UNCHANGED <<nHost, nApp, opt>>

NextEmbed ==
  \/ CreateEmbed
  \/ EmbedValue

SpecEmbed == Init /\ [][NextEmbed]_vars

\* the application edits through the root, several calls in a row
CanEdit == Running /\ nApp < MaxCalls /\ Cardinality(DOMAIN h.dom) <= MaxDom

\* root.insertAt(index, text) with a text of one or two characters
EditInsertAt ==
  /\ CanEdit
  /\ \E index \in 0..length(h, RootBlot), text \in {<<"b">>, <<"a", "b">>} :
       h' = Collect(ScrollBlot_insertAt(Begin(h), index, text))
  /\ lastOp' = "insertAt"
  /\ nApp' = nApp + 1
  /\ UNCHANGED <<nHost, opt>>

\* root.formatAt(index, length, 'bold', true)
EditFormatAt ==
  /\ CanEdit
  /\ \E index \in 0..length(h, RootBlot) :
     \E len \in 1..(length(h, RootBlot) - index) :
       h' = Collect(ScrollBlot_formatAt(Begin(h), index, len, "bold", "true"))
  /\ lastOp' = "formatAt"
  /\ nApp' = nApp + 1
  /\ UNCHANGED <<nHost, opt>>

NextEdit ==
  \/ HostInsert
  \/ Update
  \/ Optimize
  \/ EditInsertAt
  \/ EditFormatAt

SpecEdit == Init /\ [][NextEdit]_vars

\* parent.appendChild(scroll.create(name, value)) on a parent blot
AppendChild ==
  /\ CanEdit
  /\ \E b \in {x \in TreeBlots(h, RootBlot) : IsParent(h.blot[x].kind)} :
     \E name \in {"text", "inline", "block"} :
       h' = Collect(Log(
              The({ParentBlot_appendChild(c.h, b, c.r)
                   : c \in {Registry_createName(
                              Begin(h), name,
                              IF name = "text" THEN <<"a">> ELSE "")}}),
              "appendChild"))
  /\ lastOp' = "appendChild"
  /\ nApp' = nApp + 1
  /\ UNCHANGED <<nHost, opt>>

\* parent.enforceAllowedChildren() on a parent blot, once
Enforce ==
  /\ Running
  /\ nApp <= MaxCalls
  /\ \E b \in {x \in TreeBlots(h, RootBlot) : IsParent(h.blot[x].kind)} :
       h' = Collect(Log(ParentBlot_enforceAllowedChildren(Begin(h), b), "enforce"))
  /\ lastOp' = "enforce"
  /\ nApp' = MaxCalls + 1
  /\ UNCHANGED <<nHost, opt>>

NextEnforce ==
  \/ HostInsert
  \/ Update
  \/ AppendChild
  \/ Enforce

SpecEnforce == Init /\ [][NextEnforce]_vars

\* ParentBlot.optimize(context) on a parent blot: the whole optimize of a
\* block, and the step the optimize of the root and of an inline begins with
ParentOptimize ==
  /\ Running
  /\ nApp <= MaxCalls
  /\ \E b \in {x \in TreeBlots(h, RootBlot) : IsParent(h.blot[x].kind)} :
       h' = Collect(Log(ParentBlot_optimize(Begin(h), b), "parentOptimize"))
  /\ lastOp' = "parentOptimize"
  /\ nApp' = MaxCalls + 1
  /\ UNCHANGED <<nHost, opt>>

NextParentOptimize ==
  \/ HostInsert
  \/ Update
  \/ AppendChild
  \/ ParentOptimize

SpecParentOptimize == Init /\ [][NextParentOptimize]_vars

\* the host inserts known and unknown elements, the engine adapts them
NextAdapt ==
  \/ HostInsert
  \/ HostInsertUnknown
  \/ Update
  \/ Optimize

SpecAdapt == Init /\ [][NextAdapt]_vars

NextOpt ==
  \/ OptEnter
  \/ OptReturn
  \/ OptThrow
  \/ OptPass

SpecOpt == Init /\ [][NextOpt]_vars

\* ------------------------------------------------- the ordered container
\* Two LinkedList objects, owned by the blots ListA and ListB, and MaxNodes
\* nodes; a caller appends, inserts and removes, keeping the container's
\* contract: the anchor is null or a member other than the node, and the node
\* is no member of the other container.

ListA == RootBlot
ListB == RootBlot + 1
Lists == {ListA, ListB}
ListNodes == (ListB + 1)..(ListB + MaxNodes)

InitList ==
  /\ h = [InitHeap EXCEPT
            !.blot = [b \in Lists \cup ListNodes |->
                        IF b \in Lists THEN NewBlot("block", Null)
                        ELSE [NewBlot("text", Null) EXCEPT !.text = <<"a">>]],
            !.tbl = <<>>]
  /\ lastOp = "init"
  /\ nHost = 0
  /\ nApp = 0
  /\ opt = [pc |-> "off", e |-> 0, o |-> 0]

\* the node may enter container c
Free(c, t) == \A d \in Lists \ {c} : ~LinkedList_contains(h, d, t)

ListAppend ==
  /\ \E c \in Lists, t \in ListNodes :
       /\ Free(c, t)
       /\ h' = LinkedList_append(h, c, t)
  /\ lastOp' = "append"
  /\ UNCHANGED <<nHost, nApp, opt>>

ListInsertBefore ==
  /\ \E c \in Lists, t \in ListNodes :
     \E ref \in {x \in ListNodes : LinkedList_contains(h, c, x)} \cup {Null} :
       /\ Free(c, t)
       /\ ref # t
       /\ h' = LinkedList_insertBefore(h, c, t, ref)
  /\ lastOp' = "insertBefore"
  /\ UNCHANGED <<nHost, nApp, opt>>

ListRemove ==
  /\ \E c \in Lists, t \in ListNodes : h' = LinkedList_remove(h, c, t)
  /\ lastOp' = "remove"
  /\ UNCHANGED <<nHost, nApp, opt>>

NextList ==
  \/ ListAppend
  \/ ListInsertBefore
  \/ ListRemove

SpecList == InitList /\ [][NextList]_vars

\* ------------------------------------------------------------------
\* One ordered container whose entries have lengths 0..MaxEntryLen, and the
\* lookups made on it.
RECURSIVE AppendAll(_, _, _)
AppendAll(hh, c, ts) ==
  IF ts = <<>> THEN hh
  ELSE AppendAll(LinkedList_append(hh, c, ts[1]), c, Tail(ts))

\* the container ListA holding entries of the given lengths
ListOf(lens) ==
  AppendAll([InitHeap EXCEPT
               !.blot = [b \in ListA..(ListA + Len(lens)) |->
                           IF b = ListA THEN NewBlot("block", Null)
                           ELSE [NewBlot("text", Null) EXCEPT
                                   !.text = [i \in 1..lens[b - ListA] |-> "a"]]],
               !.tbl = <<>>],
            ListA, [i \in 1..Len(lens) |-> ListA + i])

InitFind ==
  /\ \E n \in 0..MaxEntries :
     \E lens \in [1..n -> 0..MaxEntryLen] : h = ListOf(lens)
  /\ lastOp = "init"
  /\ nHost = 0
  /\ nApp = 0
  /\ opt = [pc |-> "off", e |-> 0, o |-> 0]

\* children.find(index, inclusive)
ListFind ==
  /\ \E index \in 0..(length(h, ListA) + 1), inclusive \in BOOLEAN :
       h' = [h EXCEPT !.ret = [index |-> index, inclusive |-> inclusive,
                               length |-> 0,
                               r |-> LinkedList_find(h, ListA, index, inclusive)]]
  /\ lastOp' = "find"
  /\ UNCHANGED <<nHost, nApp, opt>>

\* children.forEachAt(index, length, visitor) with a visitor that records
\* its arguments
ListForEachAt ==
  /\ \E index \in 0..length(h, ListA), length_ \in 0..(length(h, ListA) + 1) :
       h' = [h EXCEPT !.ret = [index |-> index, inclusive |-> FALSE,
                               length |-> length_,
                               r |-> LinkedList_forEachAt(h, ListA, index, length_)]]
  /\ lastOp' = "forEachAt"
  /\ UNCHANGED <<nHost, nApp, opt>>

NextFind ==
  \/ ListFind
  \/ ListForEachAt

SpecFind == InitFind /\ [][NextFind]_vars

\* ---------------------------------------------------------------- properties

\* C2: after any sequence of append, insertBefore and remove that keeps the
\* container's contract, every entry a reached from head has a.next.prev = a
\* when a.next is not null and a.prev.next = a when a.prev is not null, and
\* head.prev and tail.next are null.
C2_SiblingLinksConsistent ==
  \A c \in Lists :
    LET hd == h.blot[c].head
        tl == h.blot[c].tail
    IN /\ \A a \in Range(Children(h, c)) :
            /\ h.blot[a].next # Null => h.blot[h.blot[a].next].prev = a
            /\ h.blot[a].prev # Null => h.blot[h.blot[a].prev].next = a
       /\ hd # Null => h.blot[hd].prev = Null
       /\ tl # Null => h.blot[tl].next = Null

\* C2 witness: a remove has taken the head from a container that keeps two
\* entries, and the removed node still points at its old successor
C2_Witness ==
  /\ lastOp = "remove"
  /\ Len(Children(h, ListA)) = 2
  /\ \E t \in ListNodes :
       /\ ~LinkedList_contains(h, ListA, t)
       /\ ~LinkedList_contains(h, ListB, t)
       /\ h.blot[t].next = h.blot[ListA].head


\* the leaf blots below a blot
Leaves(hh, b) == {x \in TreeBlots(hh, b) : ~IsParent(hh.blot[x].kind)}

\* the lengths of a set of leaves, summed leaf by leaf
RECURSIVE SumLeaves(_, _)
SumLeaves(hh, S) ==
  IF S = {} THEN 0
  ELSE LET x == CHOOSE y \in S : TRUE
       IN (IF hh.blot[x].kind = "text" THEN Len(hh.blot[x].text) ELSE 1)
          + SumLeaves(hh, S \ {x})

\* C1: after any sequence of insertAt, deleteAt, formatAt, split, update and
\* optimize calls that returned, every parent blot attached under the root
\* reports length() equal to the sum of the lengths of the leaf blots in its
\* subtree.
C1_LengthIsLeafSum ==
  Running =>
    \A b \in TreeBlots(h, RootBlot) :
      IsParent(h.blot[b].kind) => length(h, b) = SumLeaves(h, Leaves(h, b))

\* C1 witness: a split has left a block holding two text leaves of one
\* character each
C1_Witness ==
  /\ Running
  /\ lastOp = "split"
  /\ \E b \in TreeBlots(h, RootBlot) :
       /\ h.blot[b].kind = "block"
       /\ Cardinality(Leaves(h, b)) = 2
       /\ length(h, b) = 2

\* C3: between operations the identity table maps the host node of every
\* blot attached under the root to that blot, and no blot the last operation
\* detached or removed (the blots below it included) is still found through
\* its host node.
C3_TableTracksAttachment ==
  Running =>
    /\ \A b \in TreeBlots(h, RootBlot) :
         Registry_find(h, h.blot[b].dom, FALSE) = b
    /\ h.found = {}

\* C3 witness: update has detached a block and the text below it, which the
\* host had removed
C3_Witness ==
  /\ Running
  /\ lastOp = "update"
  /\ h.nDetached = 2
  /\ h.blot[RootBlot].len = 0

\* the root's index-addressed operations
RootOps == {"insertAt", "deleteAt", "formatAt"}

\* C4: root insertAt, deleteAt and formatAt first fold every record pending at
\* the call, update followed by optimize, and only then mutate: when one of
\* them has returned, its calls completed in the order fold, optimize, update,
\* mutation, and no host mutation is left unfolded.
C4_FoldBeforeMutate ==
  (Running /\ lastOp \in RootOps) =>
    /\ h.log = <<"fold", "optimize", "update", lastOp>>
    /\ ~h.hostPending

\* C4 witness: insertAt has returned after folding two pending records into a
\* block and adding its character to the block's text
C4_Witness ==
  /\ Running
  /\ lastOp = "insertAt"
  /\ h.folded = 2
  /\ \E b \in TreeBlots(h, RootBlot) :
       h.blot[b].kind = "text" /\ Len(h.blot[b].text) = 2

\* the original C5: a read issued after a host mutation returns what it would
\* return with the pending records folded
C5_ReadNeverStale ==
  (Running /\ lastOp = "length" /\ ScrollBlot_update(h).err = NoErr) =>
    h.ret = length(ScrollBlot_update(h), RootBlot)

\* C5, as amended: a read takes no record and touches neither tree; it returns
\* the value of the blot tree as the last fold left it.
C5_ReadReturnsLastFold ==
  [][lastOp' = "length" =>
       /\ h'.ret = SumLeaves(h, Leaves(h, RootBlot))
       /\ h'.recs = h.recs
       /\ h'.blot = h.blot
       /\ h'.dom = h.dom
       /\ h'.tbl = h.tbl]_vars

\* C5 witness: length() has returned 1 while the record of a host insertion is
\* still queued
C5_Witness ==
  /\ Running
  /\ lastOp = "length"
  /\ h.hostPending
  /\ h.recs # <<>>
  /\ h.ret = 1

\* C6: every root update that returns has run optimize to completion after
\* folding the records: in the log of a returned operation each "update" comes
\* right after "optimize", which comes right after "fold".
C6_UpdateEndsWithOptimize ==
  Running =>
    /\ \A i \in DOMAIN h.log :
         h.log[i] = "update" =>
           i >= 3 /\ h.log[i - 1] = "optimize" /\ h.log[i - 2] = "fold"
    /\ lastOp \in RootOps \cup {"update"} => Has(h.log, "update")

\* C6 witness: an update the observer's delivery triggered has returned after
\* folding a record and running one optimize pass
C6_Witness ==
  /\ Running
  /\ lastOp = "update"
  /\ h.folded = 1
  /\ h.passes = 1
  /\ h.log = <<"fold", "optimize", "update">>

\* C7: one call of root optimize runs at most MAX_OPTIMIZE_ITERATIONS passes;
\* it returns exactly when the loop holds no record, without another pass, and
\* throws exactly when records are left after pass MAX_OPTIMIZE_ITERATIONS,
\* without starting the next pass.
C7_OptimizeBounded ==
  [][opt.pc = "loop" =>
       /\ opt'.e <= MAX_OPTIMIZE_ITERATIONS
       /\ opt.o = 0 => (opt'.pc = "returned" /\ opt'.e = opt.e)
       /\ (opt.o > 0 /\ opt.e < MAX_OPTIMIZE_ITERATIONS) =>
            (opt'.pc = "loop" /\ opt'.e = opt.e + 1)
       /\ (opt.o > 0 /\ opt.e >= MAX_OPTIMIZE_ITERATIONS) =>
            (opt'.pc = "thrown" /\ opt'.e = opt.e)]_vars

\* C7 witness: optimize has thrown after MAX_OPTIMIZE_ITERATIONS passes that
\* each surfaced a record
C7_Witness ==
  /\ opt.pc = "thrown"
  /\ opt.e = MAX_OPTIMIZE_ITERATIONS
  /\ opt.o > 0

\* every child is an instance of one of its parent's allowed children
Legal(hh) ==
  \A b \in TreeBlots(hh, RootBlot) :
    \A c \in Range(Children(hh, b)) :
      AllowedChild(hh.blot[b].kind, hh.blot[c].kind)

\* two adjacent siblings optimize would merge
Mergeable(hh, x, y) ==
  \/ hh.blot[x].kind = "text" /\ hh.blot[y].kind = "text"
  \/ /\ IsInline(hh.blot[x].kind)
     /\ IsInline(hh.blot[y].kind)
     /\ InlineBlot_formats(hh, x) = InlineBlot_formats(hh, y)

MergeMinimal(hh) ==
  \A b \in TreeBlots(hh, RootBlot) :
    \A i \in 1..(Len(Children(hh, b)) - 1) :
      ~Mergeable(hh, Children(hh, b)[i], Children(hh, b)[i + 1])

\* C8: whenever update or optimize has returned normally the tree is
\* structurally legal and merge-minimal.
C8_LegalAndMinimal ==
  (Running /\ lastOp \in {"update", "optimize"}) =>
    (Legal(h) /\ MergeMinimal(h))

\* the blot tree below a blot, without the objects' identities
RECURSIVE Shape(_, _)
Shape(hh, b) ==
  <<hh.blot[b].kind, hh.blot[b].text,
    IF IsInline(hh.blot[b].kind) THEN InlineBlot_formats(hh, b) ELSE <<>>,
    [i \in 1..Len(Children(hh, b)) |-> Shape(hh, Children(hh, b)[i])]>>

\* C9: a root optimize that follows a root optimize, with no host mutation
\* and no record in between, leaves the tree as the first run left it.
C9_OptimizeIdempotent ==
  [][(lastOp = "optimize" /\ lastOp' = "optimize" /\ h.recs = <<>>
      /\ Running /\ h'.err = NoErr) =>
       Shape(h', RootBlot) = Shape(h, RootBlot)]_vars

\* C10: optimize merges two adjacent inline blots only when their format sets
\* are identical, the merged blot holds the children of both in order, and
\* when update or optimize has returned no two adjacent inline blots with
\* identical format sets are left.
C10_MergeIffSameFormats ==
  Running =>
    /\ \A i \in DOMAIN h.merged :
         /\ h.merged[i].first = h.merged[i].second
         /\ h.merged[i].after = h.merged[i].before
    /\ lastOp \in {"update", "optimize"} =>
         \A b \in TreeBlots(h, RootBlot) :
           \A i \in 1..(Len(Children(h, b)) - 1) :
             LET x == Children(h, b)[i]
                 y == Children(h, b)[i + 1]
             IN (IsInline(h.blot[x].kind) /\ IsInline(h.blot[y].kind)) =>
                  InlineBlot_formats(h, x) # InlineBlot_formats(h, y)

\* C10 witness: update has merged two inlines of one colour that the host
\* had left side by side, and the one that stays holds the children of both
C10_Witness ==
  /\ Running
  /\ lastOp = "update"
  /\ Len(h.merged) = 1
  /\ DOMAIN h.merged[1].first = {"color"}
  /\ h.merged[1].second = h.merged[1].first
  /\ Len(h.merged[1].after) = 2

\* ---------------------------------------------------------------- C11
\* the text a host subtree holds, counted in characters
RECURSIVE HostLen(_, _)
HostLen(hh, n) ==
  IF hh.dom[n].tag = "#text" THEN Len(hh.dom[n].data)
  ELSE LET RECURSIVE Go(_)
           Go(i) == IF i = 0 THEN 0
                    ELSE HostLen(hh, hh.dom[n].kids[i]) + Go(i - 1)
       IN Go(Len(hh.dom[n].kids))

\* the text that precedes a host node among its siblings
HostBefore(hh, n) ==
  LET ks == hh.dom[parentNode(hh, n)].kids
      RECURSIVE Go(_)
      Go(i) == IF i = 0 THEN 0 ELSE HostLen(hh, ks[i]) + Go(i - 1)
  IN Go(IndexOf(ks, n) - 1)

\* the text nodes a pending record describes as added under a host node that
\* has a blot, and that have no blot themselves yet
InsertedText(hh) ==
  {n \in TextNodes(hh) :
     /\ Registry_find(hh, n, FALSE) = Null
     /\ Registry_find(hh, parentNode(hh, n), FALSE) # Null
     /\ \E i \in 1..Len(hh.recs) :
          /\ hh.recs[i].type = "childList"
          /\ hh.recs[i].target = parentNode(hh, n)
          /\ Has(hh.recs[i].addedNodes, n)}

\* find(node) gives a text blot under the blot of the node's host parent, with
\* the node's data as value and the preceding text's length as offset
FoundAsText(hh, n) ==
  LET b == Registry_find(hh, n, FALSE) IN
  /\ b # Null
  /\ hh.blot[b].kind = "text"
  /\ hh.blot[b].parent # Null
  /\ hh.blot[b].parent = Registry_find(hh, parentNode(hh, n), FALSE)
  /\ hh.blot[b].text = hh.dom[n].data
  /\ LinkedList_offset(hh, hh.blot[b].parent, b) = HostBefore(hh, n)

UnknownNodes(hh) ==
  {n \in Elements(hh) : TagDesc(hh.dom[n].tag) = NoDesc}

\* how often a character occurs in the text of a host subtree
RECURSIVE HostChars(_, _, _)
HostChars(hh, n, c) ==
  IF hh.dom[n].tag = "#text"
  THEN Cardinality({i \in 1..Len(hh.dom[n].data) : hh.dom[n].data[i] = c})
  ELSE LET RECURSIVE Go(_)
           Go(i) == IF i = 0 THEN 0
                    ELSE HostChars(hh, hh.dom[n].kids[i], c) + Go(i - 1)
       IN Go(Len(hh.dom[n].kids))

\* how often a character occurs in the text blots below a blot
RECURSIVE BlotChars(_, _, _)
BlotChars(hh, b, c) ==
  IF hh.blot[b].kind = "text"
  THEN Cardinality({i \in 1..Len(hh.blot[b].text) : hh.blot[b].text[i] = c})
  ELSE LET ks == Children(hh, b)
           RECURSIVE Go(_)
           Go(i) == IF i = 0 THEN 0 ELSE BlotChars(hh, ks[i], c) + Go(i - 1)
       IN Go(Len(ks))

\* C12: when update meets a host node no descriptor resolves, no content is
\* lost: the text that was under the unknown node (the only text of "b"s) is
\* still in the host tree and still represented by text blots under the root
\* when update, optimize included, has returned.
C12_UnknownContentKept ==
  [][(lastOp' = "update" /\ h'.err = NoErr /\ UnknownNodes(h) # {}) =>
       /\ HostChars(h', RootDom, "b") = HostChars(h, RootDom, "b")
       /\ BlotChars(h', RootBlot, "b") = HostChars(h, RootDom, "b")]_vars

\* ---------------------------------------------------------------- C13
\* the text of the leaves below a blot, in document order
RECURSIVE BlotText(_, _)
BlotText(hh, b) ==
  IF hh.blot[b].kind = "text" THEN hh.blot[b].text
  ELSE LET ks == Children(hh, b)
           RECURSIVE Go(_)
           Go(i) == IF i = 0 THEN <<>> ELSE Go(i - 1) \o BlotText(hh, ks[i])
       IN Go(Len(ks))

\* two siblings, the first a bold inline over "a", the second without bold
\* over "b"
BoldThenPlain(hh) ==
  \E p \in TreeBlots(hh, RootBlot) :
    /\ Len(Children(hh, p)) = 2
    /\ hh.blot[Children(hh, p)[1]].kind = "bold"
    /\ BlotText(hh, Children(hh, p)[1]) = <<"a">>
    /\ hh.blot[Children(hh, p)[2]].kind # "bold"
    /\ BlotText(hh, Children(hh, p)[2]) = <<"b">>

\* C13: on a new root, insertAt(0, "ab") followed by formatAt(0, 1, 'bold',
\* true) yields two siblings, the first bold over "a" and the second not bold
\* over "b", with the total length still 2.
C13_BoldFirstChar ==
  [][(/\ nHost = 0 /\ nApp = 1 /\ lastOp = "insertAt"
      /\ HostLen(h, RootDom) = 2
      /\ h' = Collect(ScrollBlot_formatAt(Begin(h), 0, 1, "bold", "true")))
     => /\ h'.err = NoErr
        /\ length(h', RootBlot) = 2
        /\ BoldThenPlain(h')]_vars

\* ---------------------------------------------------------------- C14
\* C14: deleteAt(0, length()) on a parent that declares a default child (the
\* root) leaves the parent in place with exactly one child, a new default
\* child without content.
C14_DeleteAllLeavesDefault ==
  [][(/\ length(h, RootBlot) > 0
      /\ h.recs = <<>>
      /\ lastOp' = "deleteAt"
      /\ h' = Collect(ScrollBlot_deleteAt(Begin(h), 0, length(h, RootBlot))))
     => /\ h'.err = NoErr
        /\ Len(Children(h', RootBlot)) = 1
        /\ h'.blot[Children(h', RootBlot)[1]].kind = DefaultChild("scroll")
        /\ Children(h', Children(h', RootBlot)[1]) = <<>>]_vars

\* ---------------------------------------------------------------- C15
\* parent.appendChild(scroll.create('text', value))
AppendNew(hh, b, value) ==
  The({ParentBlot_appendChild(c.h, b, c.r)
       : c \in {Registry_createName(hh, "text", value)}})

SameTree(h1, h2) ==
  /\ h1.err = h2.err
  /\ h1.dom = h2.dom
  /\ h1.blot = h2.blot
  /\ h1.tbl = h2.tbl

ParentsBelowRoot(hh) ==
  {x \in TreeBlots(hh, RootBlot) \ {RootBlot} : IsParent(hh.blot[x].kind)}

\* insertAt(length(), text) on a parent below the root is an append
BelowRootEndIsAppend ==
  \A b \in ParentsBelowRoot(h), c \in Chars :
    (/\ lastOp' = "blotInsertAt"
     /\ h' = Collect(Log(insertAt(Begin(h), b, length(h, b), <<c>>), "insertAt")))
    => SameTree(h', Collect(AppendNew(Begin(h), b, <<c>>)))

\* root.insertAt(length(), text) is the fold followed by an append
RootEndIsAppend ==
  \A c \in Chars :
    (/\ lastOp' = "insertAt"
     /\ h' = Collect(ScrollBlot_insertAt(Begin(h), length(h, RootBlot), <<c>>)))
    => SameTree(h', Collect(AppendNew(ScrollBlot_update(Begin(h)), RootBlot, <<c>>)))

AllDefined(value) ==
  \A i \in 1..Len(value.o.data) :
    \A k \in DOMAIN value.o.data[i].attributes :
      value.o.data[i].attributes[k] # Undefined

EntryLens(hh) ==
  [i \in 1..Len(Children(hh, ListA)) |-> length(hh, Children(hh, ListA)[i])]

\* the summed length of the entries before the i-th
RECURSIVE StartOf(_, _)
StartOf(lens, i) == IF i <= 1 THEN 0 ELSE StartOf(lens, i - 1) + lens[i - 1]

\* find may stop at the i-th entry: the offset falls inside it, or at its end
\* when the end is preferred and nothing empty follows
StopsAt(lens, i, index, inclusive) ==
  \/ index - StartOf(lens, i) < lens[i]
  \/ /\ inclusive
     /\ index - StartOf(lens, i) = lens[i]
     /\ (i = Len(lens) \/ lens[i + 1] # 0)

\* C17: with preferEnd, when the remaining offset equals the length of the
\* entry reached, find goes on to the next entry unless that entry has zero
\* length; so it returns an entry together with that entry's full length only
\* when no entry follows or the following entry is empty.
C17_PreferEndContinues ==
  (lastOp = "find" /\ h.ret.inclusive /\ h.ret.r[1] # Null
     /\ h.ret.r[2] = length(h, h.ret.r[1]))
  => (h.blot[h.ret.r[1]].next = Null \/ length(h, h.blot[h.ret.r[1]].next) = 0)

\* C17 (amended): find returns the first entry at which the remaining offset
\* is smaller than the entry's length, or, with preferEnd, equal to it while
\* no entry follows or the following entry is not empty (an empty following
\* entry makes find go on); it returns that entry with the remainder, and
\* (null, 0) when there is no such entry.
C17_FindFirstStop ==
  (lastOp = "find") =>
    LET lens == EntryLens(h)
        stops == {i \in 1..Len(lens) : StopsAt(lens, i, h.ret.index, h.ret.inclusive)}
    IN IF stops = {} THEN h.ret.r = <<Null, 0>>
       ELSE \E i \in stops :
              /\ \A j \in stops : i <= j
              /\ h.ret.r = <<Children(h, ListA)[i], h.ret.index - StartOf(lens, i)>>

\* find with preferEnd stopped at the end of an entry that a non-empty entry
\* follows, and elsewhere went past an entry that an empty entry follows
C17_Witness ==
  /\ lastOp = "find"
  /\ h.ret.inclusive
  /\ h.ret.r[1] # Null
  /\ h.ret.r[2] = length(h, h.ret.r[1])
  /\ h.ret.r[2] > 0
  /\ h.blot[h.ret.r[1]].next # Null
  /\ length(h, h.blot[h.ret.r[1]].next) > 0
  /\ h.blot[h.ret.r[1]].prev # Null
  /\ length(h, h.blot[h.ret.r[1]].prev) = 0

\* ---------------------------------------------------------------- C18
\* the i-th entry shares at least one position with [index, index + length_)
Overlaps(lens, i, index, length_) ==
  /\ lens[i] > 0
  /\ StartOf(lens, i) < index + length_
  /\ index < StartOf(lens, i) + lens[i]

\* an empty entry strictly inside the range
EmptyInside(lens, i, index, length_) ==
  /\ lens[i] = 0
  /\ index < StartOf(lens, i)
  /\ StartOf(lens, i) < index + length_

RECURSIVE SumVisits(_)
SumVisits(vs) == IF vs = <<>> THEN 0 ELSE vs[1].length + SumVisits(Tail(vs))

SplitStep(b, index) ==
  /\ lastOp' = "split"
  /\ h' = Collect(Log(split(Begin(h), b, index, FALSE).h, "split"))

IsolateStep(b, index, length_) ==
  /\ lastOp' = "isolate"
  /\ h' = Collect(Log(isolate(Begin(h), b, index, length_).h, "isolate"))

\* C20: isolate(offset, length) fails with the isolate-at-end error when the
\* split lands at or past the blot's tail and no sibling follows; in every
\* other case it returns a blot that stands alone among its siblings and
\* covers exactly the requested range.
C20_IsolateContract ==
  [][\A b \in TreeBlots(h, RootBlot) \ {RootBlot} :
     \A index \in 0..(length(h, b) + 1), length_ \in 1..MaxText :
       IsolateStep(b, index, length_) =>
         IF index >= length(h, b) /\ h.blot[b].next = Null
         THEN h'.err = "IsolateAtEnd"
         ELSE (index + length_ <= length(h, b)) =>
              LET r == isolate(Begin(h), b, index, length_).r
                  p == h.blot[b].parent
              IN /\ h'.err = NoErr
                 /\ r # Null
                 /\ h'.blot[r].parent = p
                 /\ length(h', r) = length_
                 /\ LinkedList_offset(h', p, r) = LinkedList_offset(h, p, b) + index
                 /\ length(h', p) = length(h, p)]_vars

\* ---------------------------------------------------------------- C21
\* the step is blot.wrap(name, value) on blot b
WrapStep(b, name) ==
  /\ lastOp' = "wrap"
  /\ h' = Collect(Log(wrapName(Begin(h), b, name,
                               IF name = "text" THEN <<"b">> ELSE "").h, "wrap"))

\* C21: wrap(name, value) fails with CannotWrap when the destination cannot
\* hold children; otherwise it returns the destination, which has the wrapped
\* blot as its child and stands where the wrapped blot stood among its
\* siblings.
C21_WrapContract ==
  [][\A b \in TreeBlots(h, RootBlot) \ {RootBlot} :
     \A name \in {"block", "inline", "bold", "text"} :
       WrapStep(b, name) =>
         IF ~IsParent(name) THEN h'.err = "CannotWrap"
         ELSE LET r == wrapName(Begin(h), b, name, "").r
                  p == h.blot[b].parent
              IN /\ h'.err = NoErr
                 /\ r \notin DOMAIN h.blot
                 /\ h'.blot[r].kind = name
                 /\ Children(h', r) = <<b>>
                 /\ h'.blot[b].parent = r
                 /\ h'.blot[r].parent = p
                 /\ Children(h', p) =
                      [i \in 1..Len(Children(h, p)) |->
                         IF Children(h, p)[i] = b THEN r ELSE Children(h, p)[i]]]_vars

\* a blot that had a following sibling has been wrapped in a bold inline
C21_Witness ==
  /\ Running
  /\ lastOp = "wrap"
  /\ \E r \in TreeBlots(h, RootBlot) :
       /\ h.blot[r].kind = "bold"
       /\ Len(Children(h, r)) = 1
       /\ h.blot[r].next # Null
       /\ h.blot[h.blot[r].next].kind = h.blot[Children(h, r)[1]].kind

\* ---------------------------------------------------------------- C22
\* bit b (a power of two) is set in x
HasBit(x, b) == (x \div b) % 2 = 1

\* x and y share a bit among bs
ShareBit(x, y, bs) == \E b \in bs : HasBit(x, b) /\ HasBit(y, b)

\* the descriptor the probe resolves to before the scope test
Resolved(q) ==
  IF q.by = "name"
  THEN (IF q.name \in BlotNames \cup AttrNames THEN q.name ELSE NoDesc)
  ELSE IF ShareBit(q.scope, BLOCK, {4, 8}) THEN "block"
  ELSE IF ShareBit(q.scope, INLINE, {4, 8}) THEN "inline"
  ELSE NoDesc

\* C22: query returns the resolved descriptor, of scope s, for the mask m iff
\* m, LEVEL (12) and s share a bit and m, TYPE (3) and s share a bit, and null
\* otherwise; the inline blot (scope 6) is returned for BLOT (14) and not for
\* ATTRIBUTE (13).
C22_QueryScopeTest ==
  /\ TYPE = 3 /\ LEVEL = 12
  /\ (lastOp = "query") =>
       /\ h.ret.r =
            IF Resolved(h.ret) # NoDesc
               /\ ShareBit(h.ret.mask, DescScope(Resolved(h.ret)), {4, 8})
               /\ ShareBit(h.ret.mask, DescScope(Resolved(h.ret)), {1, 2})
            THEN Resolved(h.ret) ELSE NoDesc
       /\ (h.ret.by = "name" /\ h.ret.name = "inline" /\ h.ret.mask = 14)
            => h.ret.r = "inline"
       /\ (h.ret.by = "name" /\ h.ret.name = "inline" /\ h.ret.mask = 13)
            => h.ret.r = NoDesc

\* the inline blot descriptor was probed with the ATTRIBUTE mask and not
\* returned
C22_Witness ==
  /\ lastOp = "query"
  /\ h.ret.by = "name"
  /\ h.ret.name = "inline"
  /\ h.ret.mask = ATTRIBUTE
  /\ h.ret.r = NoDesc

\* ---------------------------------------------------------------- C23
\* the registered definitions without a class marker, in registration order
Classless(reg) == SelectSeq(reg.order, LAMBDA e : e.className = "")

\* the element of the last query carries no registered class marker
NoKnownClass ==
  \A i \in 1..Len(h.ret.classes) : h.ret.classes[i] \notin DOMAIN h.ret.reg.classes

\* C23: when several definitions that share a tag are registered in any
\* order, a host element with that tag and no recognized class marker
\* resolves to the first-registered definition without a class marker; later
\* registrations never replace it.
C23_FirstClasslessIsTagDefault ==
  (lastOp = "queryElement" /\ NoKnownClass /\ Classless(h.ret.reg) # <<>>)
  => h.ret.r = Classless(h.ret.reg)[1].blotName

\* C23 (amended): such an element resolves to the last-registered definition
\* without a class marker, and, while none is registered, to the
\* first-registered definition of the tag; a later definition with a class
\* marker never replaces the tag default, a later one without does.
C23_LastClasslessIsTagDefault ==
  (lastOp = "queryElement" /\ NoKnownClass) =>
    LET cl == Classless(h.ret.reg) IN
    h.ret.r = IF cl # <<>> THEN cl[Len(cl)].blotName
              ELSE IF h.ret.reg.order # <<>> THEN h.ret.reg.order[1].blotName
              ELSE NoDesc

\* two definitions without class marker and one with were registered, the
\* one with last, and the tag resolves to the second of the two
C23_Witness ==
  /\ lastOp = "queryElement"
  /\ NoKnownClass
  /\ Len(h.ret.reg.order) = 3
  /\ Len(Classless(h.ret.reg)) = 2
  /\ h.ret.reg.order[3].className # ""
  /\ h.ret.r = h.ret.reg.order[2].blotName

C25_OnePrefixedToken ==
  /\ (lastOp = "classRemove" \/ (lastOp = "classAdd" /\ h.ret.r))
       => Len(Prefixed(h.ret.classes)) <= 1
  /\ (lastOp = "classAdd" /\ h.ret.r) =>
       /\ Len(Prefixed(h.ret.classes)) = 1
       /\ ClassAttributor_value(h.ret.classes) = h.ret.v

\* an element that carried two prefixed tokens and another one carries, after
\* a successful add, the other one and the new token
C25_Witness ==
  /\ lastOp = "classAdd"
  /\ h.ret.r
  /\ h.ret.before = 2
  /\ h.ret.classes = <<<<"o">>, <<"k", "-", "c">>>>

\* ---------------------------------------------------------------- C26
\* C26: for every offset with 0 <= offset < root.length(), path(offset) is a
\* list that starts at the root, in which each blot is the parent of the
\* next, and whose last pair is a leaf L with an offset k within it such that
\* L.offset(root) + k = offset and 0 <= k < L.length().
C26_PathReachesLeaf ==
  (lastOp = "path" /\ ~h.ret.inclusive /\ h.ret.offset < length(h, RootBlot)) =>
    LET p == h.ret.path
        last == p[Len(p)]
    IN /\ Len(p) >= 2
       /\ p[1] = <<RootBlot, h.ret.offset>>
       /\ \A i \in 1..(Len(p) - 1) : h.blot[p[i + 1][1]].parent = p[i][1]
       /\ IsLeaf(h.blot[last[1]].kind)
       /\ ShadowBlot_offset(h, last[1], RootBlot) + last[2] = h.ret.offset
       /\ 0 <= last[2]
       /\ last[2] < length(h, last[1])

\* a path of three pairs to a leaf that is not the first in the document: the
\* offset within the leaf is smaller than the offset asked for
C26_Witness ==
  /\ lastOp = "path"
  /\ ~h.ret.inclusive
  /\ h.ret.offset < length(h, RootBlot)
  /\ Len(h.ret.path) >= 3
  /\ h.ret.path[Len(h.ret.path)][2] < h.ret.offset
  /\ ShadowBlot_offset(h, h.ret.path[Len(h.ret.path)][1], RootBlot) > 0

\* ---------------------------------------------------------------- C27
\* the image grid line a key would move the cursor next to, 0 if none: the
\* selection is collapsed and outside a table; ArrowLeft and Backspace at
\* offset 0 of a line arrive from after the grid on the line before (on a
\* list line Backspace at offset 0 takes the list format off and moves
\* nothing), ArrowRight at the last offset of a line arrives before the grid
\* on the line after, ArrowUp and ArrowDown arrive from the line below or
\* above it
GridAhead(r, key) ==
  LET ctx == CurContext(r.lines, r.index, r.length)
      i == ctx.line
      up == IF i > 1 /\ r.lines[i - 1].kind = "image-grid" THEN i - 1 ELSE 0
      down == IF i < Len(r.lines) /\ r.lines[i + 1].kind = "image-grid"
              THEN i + 1 ELSE 0
  IN IF ~ctx.collapsed \/ ctx.table THEN 0
     ELSE CASE key = "ArrowLeft" -> IF ctx.offset = 0 THEN up ELSE 0
            [] key = "Backspace" -> IF ctx.offset = 0 /\ ~ctx.list THEN up ELSE 0
            [] key = "ArrowRight" ->
                 IF ctx.offset = r.lines[i].len - 1 THEN down ELSE 0
            [] key = "ArrowUp" -> up
            [] key = "ArrowDown" -> down
            [] OTHER -> 0

\* the binding of the key that looks for the image grid
GridBinding(key) ==
  CASE key = "ArrowLeft" -> "arrow left"
    [] key = "ArrowRight" -> "arrow right"
    [] key = "ArrowUp" -> "arrow up"
    [] key = "ArrowDown" -> "arrow down"
    [] OTHER -> "backspace"

Unlinked(hh, b) ==
  \A x \in TreeBlots(hh, b) :
    /\ hh.blot[x].parent = Null
    /\ hh.blot[x].prev = Null
    /\ hh.blot[x].next = Null

\* C28: after a blot is detached, directly, by remove or by the detach of
\* its parent, its parent, prev and next are all null, so that no traversal
\* from a detached blot reaches a blot still in the tree.  The blots are
\* looked at as detach leaves them, before they are forgotten.
C28_DetachedLinksNull ==
  [][ \A b \in TreeBlots(h, RootBlot) \ {RootBlot} :
        /\ (lastOp' = "remove" /\ h' = Collect(Log(remove(Begin(h), b), "remove")))
             => Unlinked(remove(Begin(h), b), b)
        /\ (lastOp' = "detach" /\ h' = Collect(Log(detach(Begin(h), b), "detach")))
             => Unlinked(detach(Begin(h), b), b)
    ]_vars

\* ---------------------------------------------------------------- C29
\* the children of a parent that its allowedChildren do not admit
Illegal(hh, b) ==
  SelectSeq(Children(hh, b),
            LAMBDA e : ~AllowedChild(hh.blot[b].kind, hh.blot[e].kind))

\* the step is one enforceAllowedChildren pass on b
EnforceStep(b) ==
  /\ lastOp' = "enforce"
  /\ IsParent(h.blot[b].kind)
  /\ h' = Collect(Log(ParentBlot_enforceAllowedChildren(Begin(h), b), "enforce"))

\* the children a pass leaves when no illegal child is block-level: the
\* legal ones stay, a container gives way to its children, any other is gone
RECURSIVE Corrected(_, _, _)
Corrected(hh, b, ks) ==
  IF ks = <<>> THEN <<>>
  ELSE (IF AllowedChild(hh.blot[b].kind, hh.blot[ks[1]].kind) THEN <<ks[1]>>
        ELSE IF IsParent(hh.blot[ks[1]].kind) THEN Children(hh, ks[1])
        ELSE <<>>)
       \o Corrected(hh, b, Tail(ks))

\* C29: a single enforceAllowedChildren pass performs at most one
\* correction: once the first illegal child has been handled (the parent
\* split around a block-level child, a container child unwrapped in place, any
\* other child removed), no further child is split, unwrapped or removed in
\* that pass.
C29_OneCorrectionPerPass ==
  [][ \A b \in TreeBlots(h, RootBlot) :
        EnforceStep(b) =>
          Cardinality({e \in Range(Illegal(h, b)) :
                         e \notin TreeBlots(h', RootBlot)}) <= 1
    ]_vars

\* C29 (amended): a pass stops only after a block-level illegal child: the
\* parent is split around that child, the part that holds it is unwrapped and
\* the child lands in the parent's parent, and the children after it are
\* left as they are.  Unwrapping a container child and removing any other
\* illegal child do not stop the pass, which corrects every illegal child up
\* to and including the first block-level one.
C29_PassStopsAfterBlockOnly ==
  [][ \A b \in TreeBlots(h, RootBlot) :
        (EnforceStep(b) /\ h'.err = NoErr) =>
          LET ks == Children(h, b)
              blocks == SelectSeq(Illegal(h, b), LAMBDA e :
                                    DescScope(h.blot[e].kind) = BLOCK_BLOT)
          IN IF blocks = <<>>
             THEN Children(h', b) = Corrected(h, b, ks)
             ELSE LET k == IndexOf(ks, blocks[1]) IN
                  /\ h'.blot[blocks[1]].parent = h.blot[b].parent
                  /\ IF k = 1 THEN b \notin TreeBlots(h', RootBlot)
                     ELSE Children(h', b) = Corrected(h, b, SubSeq(ks, 1, k - 1))
                  /\ \A i \in (k + 1)..Len(ks) :
                       /\ ks[i] \in TreeBlots(h', RootBlot)
                       /\ h'.blot[h'.blot[ks[i]].parent].kind = h.blot[b].kind
    ]_vars

\* one pass on the root has removed two illegal children and kept the legal
\* one
C29_Witness ==
  /\ lastOp = "enforce"
  /\ Running
  /\ h.nDetached = 2
  /\ Len(Children(h, RootBlot)) = 1
  /\ h.blot[Children(h, RootBlot)[1]].kind = "block"

\* ---------------------------------------------------------------- C30
\* the step is ParentBlot.optimize on b
ParentOptimizeStep(b) ==
  /\ lastOp' = "parentOptimize"
  /\ IsParent(h.blot[b].kind)
  /\ h' = Collect(Log(ParentBlot_optimize(Begin(h), b), "parentOptimize"))

\* C30: optimize on a parent blot whose children are empty after the
\* enforcement appends exactly one freshly created default child when the
\* parent declares one, and otherwise removes the parent from its own parent
\* and from the identity table; a parent that is not empty gains no default
\* child.  The children after the enforcement are those
\* enforceAllowedChildren leaves; the identity table is looked at as optimize
\* leaves it.
C30_DefaultChildOrRemoval ==
  [][ \A b \in TreeBlots(h, RootBlot) :
        (ParentOptimizeStep(b) /\ h'.err = NoErr) =>
          LET he == ParentBlot_enforceAllowedChildren(Begin(h), b)
              ho == ParentBlot_optimize(Begin(h), b)
          IN IF Children(he, b) = <<>>
             THEN IF DefaultChild(h.blot[b].kind) # NoDesc
                  THEN /\ Len(Children(h', b)) = 1
                       /\ Children(h', b)[1] \notin DOMAIN he.blot
                       /\ h'.blot[Children(h', b)[1]].kind = DefaultChild(h.blot[b].kind)
                       /\ Children(h', Children(h', b)[1]) = <<>>
                       /\ h'.blot[Children(h', b)[1]].parent = b
                  ELSE /\ b \notin TreeBlots(h', RootBlot)
                       /\ \A p \in TreeBlots(h', RootBlot) : ~Has(Children(h', p), b)
                       /\ \A n \in DOMAIN ho.tbl : ho.tbl[n] # b
             ELSE Children(h', b) = Children(he, b)
    ]_vars

\* the root held one text, which the enforcement removed, and now holds one
\* empty default block
C30_Witness ==
  /\ lastOp = "parentOptimize"
  /\ Running
  /\ h.nDetached = 1
  /\ Len(Children(h, RootBlot)) = 1
  /\ h.blot[Children(h, RootBlot)[1]].kind = "block"
  /\ Children(h, Children(h, RootBlot)[1]) = <<>>

\* ---------------------------------------------------------------- C31
\* the host puts a paragraph holding a text at the end of an element, changes
\* the text and takes the paragraph out again before the observer delivers:
\* the record of the text names a node that is no longer below any blot
HostTransient ==
  /\ CanHost
  /\ Cardinality(DOMAIN h.dom) + 2 <= MaxDom
  /\ \E p \in Elements(h), c \in Chars :
       h' = Host(The({
              Node_removeChild(
                Node_setData(h1, h1.dom[Fresh(h.dom)].kids[1], <<"a", c>>),
                p, Fresh(h.dom))
              : h1 \in {Node_insertBefore(
                          HostFragment(Begin(h), "P", "", FALSE),
                          p, Fresh(h.dom), Null)}}))
  /\ lastOp' = "hostTransient"
  /\ nHost' = nHost + 1
  /\ UNCHANGED <<nApp, opt>>

NextFold ==
  \/ HostInsert
  \/ HostSetData
  \/ HostTransient
  \/ InsertAt
  \/ Update

SpecFold == Init /\ [][NextFold]_vars

\* the step is the root's update() on the pending batch
RootUpdateStep ==
  /\ lastOp' = "update"
  /\ h' = Collect(ScrollBlot_update(Begin(h)))

\* the registered blot nearest to a host node, the node itself included
RECURSIVE NearestBlot(_, _)
NearestBlot(hh, n) ==
  IF n = Null \/ n \notin DOMAIN hh.dom THEN Null
  ELSE IF \E b \in DOMAIN hh.blot : n \in DOMAIN hh.tbl /\ hh.tbl[n] = b
  THEN hh.tbl[n]
  ELSE NearestBlot(hh, hh.dom[n].parent)

\* the records of a batch the blot is the nearest blot of
RecordsOf(hh, batch, b) ==
  SelectSeq(batch, LAMBDA r : NearestBlot(hh, r.target) = b)

\* where the blot first appears in the batch
FirstAt(hh, batch, b) ==
  CHOOSE i \in 1..Len(batch) :
    /\ NearestBlot(hh, batch[i].target) = b
    /\ \A j \in 1..(i - 1) : NearestBlot(hh, batch[j].target) # b

\* C31: the root's update hands every record of the batch to the nearest
\* registered blot at or above the record's target; each affected blot other
\* than the root is updated exactly once, with all of its records, in the
\* order in which the blots first appear in the batch; the root's own
\* records are applied after every other blot's; a record with no
\* registered blot above it reaches no blot.  When an update throws, the
\* calls made so far are a prefix of these.
C31_RecordsGroupedByNearestBlot ==
  [][ RootUpdateStep =>
        LET cs == h'.calls
            batch == h.recs
        IN /\ \A i \in 1..Len(cs) :
                /\ cs[i].blot # Null
                /\ cs[i].recs # <<>>
                /\ cs[i].recs = RecordsOf(h, batch, cs[i].blot)
           /\ \A i, j \in 1..Len(cs) : cs[i].blot = cs[j].blot => i = j
           /\ \A i, j \in 1..Len(cs) :
                (i < j /\ cs[j].blot # RootBlot) =>
                  /\ cs[i].blot # RootBlot
                  /\ FirstAt(h, batch, cs[i].blot) < FirstAt(h, batch, cs[j].blot)
           /\ h'.err = NoErr =>
                \A k \in 1..Len(batch) :
                  NearestBlot(h, batch[k].target) # Null =>
                    \E i \in 1..Len(cs) :
                      cs[i].blot = NearestBlot(h, batch[k].target)
    ]_vars

\* an update of a batch of four records has handed one to a blot below the
\* root and then two to the root, and has left one out
C31_Witness ==
  /\ lastOp = "update"
  /\ Running
  /\ h.folded = 4
  /\ Len(h.calls) = 2
  /\ h.calls[1].blot # RootBlot
  /\ h.calls[2].blot = RootBlot
  /\ Len(h.calls[1].recs) = 1
  /\ Len(h.calls[2].recs) = 2

\* ---------------------------------------------------------------- C32
\* the added nodes of one parent were handled, each before the nodes that
\* precede it among the parent's host children
HandledLastFirst(as) ==
  \A i, j \in 1..Len(as) :
    (i < j /\ as[i].parent = as[j].parent
       /\ Has(as[j].kids, as[i].node) /\ Has(as[j].kids, as[j].node)) =>
      IndexOf(as[j].kids, as[i].node) >= IndexOf(as[j].kids, as[j].node)

\* the added nodes of one parent were handled, each after the nodes that
\* precede it among the parent's host children
HandledFirstLast(as) ==
  \A i, j \in 1..Len(as) :
    (i < j /\ as[i].parent = as[j].parent
       /\ Has(as[j].kids, as[i].node) /\ Has(as[j].kids, as[j].node)) =>
      IndexOf(as[j].kids, as[i].node) <= IndexOf(as[j].kids, as[j].node)

\* every handled node is a host child of the parent's node; its blot is a
\* child of the parent and stands immediately before the blot of the node's
\* next host sibling, or at the end when there is no such blot
PlacedBeforeNextSibling(hu, as) ==
  \A i \in 1..Len(as) :
    LET a == as[i]
        k == IndexOf(a.kids, a.node)
    IN /\ k > 0
       /\ a.owner = a.parent
       /\ a.next = a.ref
       /\ k = Len(a.kids) => a.ref = Null
       /\ a.ref # Null =>
            /\ k < Len(a.kids)
            /\ a.ref \in DOMAIN hu.blot
            /\ hu.blot[a.ref].dom = a.kids[k + 1]

\* C32 as stated: when a parent blot folds structural records, the added
\* host nodes that are still its host children are handled in document
\* order, and each is put into the children immediately before the blot of
\* its next host sibling, or at the end when that sibling has no blot
C32_AddedInDocumentOrder ==
  [][ RootUpdateStep =>
        /\ HandledFirstLast(h'.adds)
        /\ PlacedBeforeNextSibling(ScrollBlot_update(Begin(h)), h'.adds)
    ]_vars

\* C32: when a parent blot folds structural records, the added host nodes
\* that are still its host children are handled in reverse document order,
\* the last one first, and each is put into the children immediately before
\* the blot of its next host sibling, or at the end when it has no next
\* sibling or that sibling has no blot
C32_AddedInReverseDocumentOrder ==
  [][ RootUpdateStep =>
        /\ HandledLastFirst(h'.adds)
        /\ PlacedBeforeNextSibling(ScrollBlot_update(Begin(h)), h'.adds)
    ]_vars

\* an update has handled two added nodes of the root, the second of the two
\* host children before the first, and put the first one's blot before the
\* second one's
C32_Witness ==
  /\ lastOp = "update"
  /\ Len(h.adds) >= 2
  /\ h.adds[1].parent = RootBlot
  /\ h.adds[2].parent = RootBlot
  /\ h.adds[1].node # h.adds[2].node
  /\ IndexOf(h.adds[2].kids, h.adds[1].node)
       = IndexOf(h.adds[2].kids, h.adds[2].node) + 1
  /\ h.adds[1].ref = Null
  /\ h.adds[2].ref = h.adds[1].blot

\* ---------------------------------------------------------------- C33
\* the host sets a text node's data to the letter e followed by the combining
\* acute accent
HostSetDecomposed ==
  /\ CanHost
  /\ \E n \in TextNodes(h) :
       /\ h.dom[n].data # <<"e", "acute">>
       /\ h' = Host(Node_setData(Begin(h), n, <<"e", "acute">>))
  /\ lastOp' = "hostSetDecomposed"
  /\ nHost' = nHost + 1
  /\ UNCHANGED <<nApp, opt>>

TextBlots(hh) == {b \in TreeBlots(hh, RootBlot) : hh.blot[b].kind = "text"}

\* text.insertAt(index, value) on a text blot of the tree
TextInsertAt ==
  /\ CanApp
  /\ \E b \in TextBlots(h), c \in Chars :
     \E index \in 0..length(h, b) :
       h' = Collect(Log(TextBlot_insertAt(Begin(h), b, index, <<c>>),
                        "textInsertAt"))
  /\ lastOp' = "textInsertAt"
  /\ nApp' = nApp + 1
  /\ UNCHANGED <<nHost, opt>>

\* text.deleteAt(index, length) on a text blot of the tree
TextDeleteAt ==
  /\ CanApp
  /\ \E b \in TextBlots(h) :
     \E index \in 0..(length(h, b) - 1) :
     \E length_ \in 1..(length(h, b) - index) :
       h' = Collect(Log(TextBlot_deleteAt(Begin(h), b, index, length_),
                        "textDeleteAt"))
  /\ lastOp' = "textDeleteAt"
  /\ nApp' = nApp + 1
  /\ UNCHANGED <<nHost, opt>>

\* text.split(index) on a text blot of the tree
TextSplit ==
  /\ CanApp
  /\ \E b \in TextBlots(h) :
     \E index \in 0..length(h, b) :
       h' = Collect(Log(TextBlot_split(Begin(h), b, index, FALSE).h,
                        "textSplit"))
  /\ lastOp' = "textSplit"
  /\ nApp' = nApp + 1
  /\ UNCHANGED <<nHost, opt>>

NextText ==
  \/ HostInsert
  \/ HostSetData
  \/ HostSetDecomposed
  \/ Update
  \/ TextInsertAt
  \/ TextDeleteAt
  \/ TextSplit

SpecText == Init /\ [][NextText]_vars

\* the cached text of the text blot is its host node's character data
CachedIsHostData(hh, b) == hh.blot[b].text = hh.dom[hh.blot[b].dom].data

\* the step is one of the text blot's own insertAt, deleteAt and split
OwnTextStep(b) ==
  \/ /\ lastOp' = "textInsertAt"
     /\ \E c \in Chars : \E index \in 0..length(h, b) :
          h' = Collect(Log(TextBlot_insertAt(Begin(h), b, index, <<c>>),
                           "textInsertAt"))
  \/ /\ lastOp' = "textDeleteAt"
     /\ \E index \in 0..(length(h, b) - 1) :
        \E length_ \in 1..(length(h, b) - index) :
          h' = Collect(Log(TextBlot_deleteAt(Begin(h), b, index, length_),
                           "textDeleteAt"))
  \/ /\ lastOp' = "textSplit"
     /\ \E index \in 0..length(h, b) :
          h' = Collect(Log(TextBlot_split(Begin(h), b, index, FALSE).h,
                           "textSplit"))

\* C33: the cached text of every attached text blot equals its host node's
\* character data after the blot's own insertAt, deleteAt and split, and
\* after a root update whose batch holds a character-data record for that
\* host node; value() and length() of every text blot of the tree agree with
\* the host data whenever update has returned.
C33_CachedTextIsHostData ==
  [][ /\ \A b \in TextBlots(h) :
           (OwnTextStep(b) /\ h'.err = NoErr /\ b \in TextBlots(h')) =>
             CachedIsHostData(h', b)
      /\ (RootUpdateStep /\ h'.err = NoErr) =>
           \A b \in TextBlots(h') :
             /\ CachedIsHostData(h', b)
             /\ length(h', b) = Len(h'.dom[h'.blot[b].dom].data)
    ]_vars

\* ---------------------------------------------------------------- C34
\* the host puts <p>a</p> at the end of the root's node
WithParagraph(hh) ==
  Host(Node_insertBefore(HostFragment(Begin(hh), "P", "", FALSE),
                         RootDom, Fresh(hh.dom), Null))

\* a root that has folded two paragraphs the host gave it, <p>a</p><p>a</p>
TwoParagraphs ==
  Begin(Collect(ScrollBlot_update(Begin(WithParagraph(WithParagraph(InitHeap))))))

InitMirror ==
  /\ h = TwoParagraphs
  /\ lastOp = "init"
  /\ nHost = 0
  /\ nApp = 0
  /\ opt = [pc |-> "off", e |-> 0, o |-> 0]

NextMirror ==
  \/ HostInsert
  \/ HostRemove
  \/ HostMove
  \/ Update

SpecMirror == InitMirror /\ [][NextMirror]_vars

\* the host nodes the children of a blot own
OwnedNodes(hh, b) ==
  [i \in 1..Len(Children(hh, b)) |-> hh.blot[Children(hh, b)[i]].dom]

\* every parent blot of the tree has a child for each child node of its host
\* node, in the same order
Mirrors(hh) ==
  \A b \in TreeBlots(hh, RootBlot) :
    IsParent(hh.blot[b].kind) => OwnedNodes(hh, b) = hh.dom[hh.blot[b].dom].kids

\* C34: after the root's update has returned normally for a batch of
\* structural records (adds, removes and moves of host nodes, in any record
\* order), for every parent blot of the tree the host nodes its children own
\* are, in order, the child nodes of its host node.  No blot of the model has
\* a UI-overlay node.
C34_ChildrenMirrorHost ==
  [][ (RootUpdateStep /\ h'.err = NoErr
         /\ \A i \in 1..Len(h.recs) : h.recs[i].type = "childList")
        => Mirrors(h')
    ]_vars

\* ---------------------------------------------------------------- C35
\* C35: when the root's optimize has returned normally, on its own or at the
\* end of update, the observer holds no pending record: the records the
\* passes themselves produced were taken at the end of each pass and handed
\* to the next pass, and the last pass produced none.  What the next update
\* takes was queued after optimize returned.
C35_OptimizeLeavesNoRecords ==
  (lastOp \in {"optimize", "update"} /\ Running) => h.recs = <<>>

\* optimize has returned after two passes or more: the first pass changed
\* the host tree and its records went to the second
C35_Witness ==
  /\ lastOp = "optimize"
  /\ Running
  /\ h.passes >= 2
  /\ h.recs = <<>>

\* ---------------------------------------------------------------- C36
\* the formats of every character below a blot, left to right: what the
\* inline blots above the character carry, the nearest one first
RECURSIVE CharFormats(_, _, _)
CharFormats(hh, b, fs) ==
  IF hh.blot[b].kind = "text" THEN [i \in 1..Len(hh.blot[b].text) |-> fs]
  ELSE LET ks == Children(hh, b)
           gs == IF IsInline(hh.blot[b].kind)
                 THEN fs @@ InlineBlot_formats(hh, b) ELSE fs
           RECURSIVE Go(_)
           Go(i) == IF i > Len(ks) THEN <<>>
                    ELSE CharFormats(hh, ks[i], gs) \o Go(i + 1)
       IN Go(1)

\* the step is root.formatAt(index, length, name, value)
FormatAtStep(index, length_, name, value) ==
  /\ lastOp' = "formatAt"
  /\ h' = Collect(ScrollBlot_formatAt(Begin(h), index, length_, name, value))

\* the text below the root and its length are what they were, and so are
\* the formats of the characters outside the range
TextKept(index, length_) ==
  /\ length(h', RootBlot) = length(h, RootBlot)
  /\ BlotText(h', RootBlot) = BlotText(h, RootBlot)
  /\ \A i \in 1..Len(BlotText(h, RootBlot)) :
       (i <= index \/ i > index + length_) =>
         CharFormats(h', RootBlot, <<>>)[i] = CharFormats(h, RootBlot, <<>>)[i]

\* C36: root.formatAt(index, length, name, value) with an inline blot or an
\* inline attribute as the format and index + length within the root's
\* length, called while no host mutation awaits folding, leaves the root's
\* length and the concatenation of the text leaves as they were; the
\* characters outside the range keep their formats.
C36_FormatAtKeepsText ==
  [][ \A index \in 0..MaxDom, length_ \in 1..MaxDom :
      \A f \in {<<"bold", "true">>, <<"bold", "">>, <<"color", "blue">>,
                <<"color", "">>} :
        (/\ FormatAtStep(index, length_, f[1], f[2])
         /\ ~h.hostPending
         /\ index + length_ <= length(h, RootBlot)
         /\ h'.err = NoErr)
        => TextKept(index, length_)
    ]_vars

\* ---------------------------------------------------------------- C37
\* C37: when wrap throws CannotWrap because the destination cannot hold
\* children, the tree is left as it was before the call: the wrapped blot's
\* parent has the same children in the same order, the destination is not
\* among them, and the parent's host node has the child nodes it had.
C37_CannotWrapLeavesTree ==
  [][\A b \in TreeBlots(h, RootBlot) \ {RootBlot} :
     \A name \in {"block", "inline", "bold", "text"} :
       (WrapStep(b, name) /\ h'.err = "CannotWrap") =>
         LET p == h.blot[b].parent
             r == wrapName(Begin(h), b, name, <<"b">>).r
         IN /\ Children(h', p) = Children(h, p)
            /\ ~Has(Children(h', p), r)
            /\ h'.dom[h.blot[p].dom].kids = h.dom[h.blot[p].dom].kids]_vars

\* ---------------------------------------------------------------- C38
\* The keyboard module's table of bindings and its keydown listener.  A key
\* is known by its name (evt.key) and by its number (evt.which), written
\* here "#13"; a binding is registered under the one it was given.  Of the
\* modifiers only shiftKey varies; a handler is known by what it returns.
KeyNames == {"Enter", "Backspace", "Delete"}

KeyCode(name) ==
  CASE name = "Enter" -> "#13"
    [] name = "Backspace" -> "#8"
    [] name = "Delete" -> "#46"

BindingKeys == KeyNames \cup {KeyCode(k) : k \in KeyNames}

KeyBinding(key, shiftKey, collapsed, offset, prefix, suffix, returns) ==
  [key |-> key, shiftKey |-> shiftKey, collapsed |-> collapsed,
   offset |-> offset, prefix |-> prefix, suffix |-> suffix,
   returns |-> returns]

\* the bindings an application configures or adds: by name or by number,
\* for shift up or for any shift, with a handler that returns true or not
ConfiguredBindings ==
  {KeyBinding(key, shiftKey, "any", "any", "any", "any", returns) :
     key \in {"Enter", "#13", "Backspace"}, shiftKey \in {"false", "null"},
     returns \in {"true", "other"}}

\* the built-in bindings of the constructor, in its order: handleEnter, the
\* empty Enter handler, handleBackspace, handleDelete, handleDeleteRange
\* twice, handleBackspace at offset 0; none of them returns true; on
\* Firefox handleBackspace and handleDelete have no prefix or suffix test
BuiltinBindings(firefox) ==
  <<KeyBinding("Enter", "null", "any", "any", "any", "any", "other"),
    KeyBinding("Enter", "false", "any", "any", "any", "any", "other"),
    KeyBinding("Backspace", "false", "true", "any",
               IF firefox THEN "any" ELSE "short", "any", "other"),
    KeyBinding("Delete", "false", "true", "any", "any",
               IF firefox THEN "any" ELSE "short", "other"),
    KeyBinding("Backspace", "false", "false", "any", "any", "any", "other"),
    KeyBinding("Delete", "false", "false", "any", "any", "any", "other"),
    KeyBinding("Backspace", "null", "true", "0", "any", "any", "other")>>

\* Keyboard.match(evt, binding)
Keyboard_match(evt, binding) ==
  /\ ~((binding.shiftKey = "true") # evt.shiftKey /\ binding.shiftKey # "null")
  /\ (binding.key = evt.key \/ binding.key = evt.which)

\* addBinding(keyBinding, context, handler): the binding goes to the end of
\* the list of its key; the number is the order of registration
Keyboard_addBinding(kb, binding) ==
  [bindings |-> [kb.bindings EXCEPT ![binding.key] =
                   Append(@, binding @@ [id |-> kb.n + 1])],
   n |-> kb.n + 1]

RECURSIVE AddBindings(_, _)
AddBindings(kb, bs) ==
  IF bs = <<>> THEN kb
  ELSE AddBindings(Keyboard_addBinding(kb, bs[1]), Tail(bs))

\* the constructor: options.bindings in their order, then the built-in ones
Keyboard_constructor(options, firefox) ==
  AddBindings(AddBindings([bindings |-> [k \in BindingKeys |-> <<>>], n |-> 0],
                          options),
              BuiltinBindings(firefox))

\* the tests of the listener on collapsed, offset, prefix and suffix
ContextHolds(binding, evt) ==
  /\ binding.collapsed # "any" =>
       ((binding.collapsed = "true") = (evt.selection = "collapsed"))
  /\ binding.offset # "any" => evt.offset = 0
  /\ binding.prefix # "any" => evt.prefixShort
  /\ binding.suffix # "any" => evt.suffixShort

\* matches.some(binding => ...): the handlers called, in order, and whether
\* one of them returned something other than true
RECURSIVE Keyboard_someMatch(_, _, _)
Keyboard_someMatch(matches, evt, invoked) ==
  IF matches = <<>> THEN [invoked |-> invoked, prevented |-> FALSE]
  ELSE IF ~ContextHolds(matches[1], evt)
  THEN Keyboard_someMatch(Tail(matches), evt, invoked)
  ELSE IF matches[1].returns # "true"
  THEN [invoked |-> Append(invoked, matches[1].id), prevented |-> TRUE]
  ELSE Keyboard_someMatch(Tail(matches), evt, Append(invoked, matches[1].id))

\* the keydown listener of listen()
Keyboard_keydown(kb, evt) ==
  IF evt.defaultPrevented THEN [invoked |-> <<>>, prevented |-> FALSE]
  ELSE LET matches == SelectSeq(kb.bindings[evt.key] \o kb.bindings[evt.which],
                                LAMBDA b : Keyboard_match(evt, b))
       IN IF matches = <<>> THEN [invoked |-> <<>>, prevented |-> FALSE]
          ELSE IF evt.selection = "null" \/ ~evt.focus
          THEN [invoked |-> <<>>, prevented |-> FALSE]
          ELSE Keyboard_someMatch(matches, evt, <<>>)

NoEvent ==
  [key |-> "none", which |-> "none", shiftKey |-> FALSE,
   defaultPrevented |-> FALSE, selection |-> "null", focus |-> FALSE,
   offset |-> 0, prefixShort |-> FALSE, suffixShort |-> FALSE]

\* a keyboard module constructed with no, one or two configured bindings
InitBind ==
  /\ \E options \in UNION {[1..k -> ConfiguredBindings] : k \in 0..MaxConfigured},
        firefox \in BOOLEAN :
       h = [InitHeap EXCEPT !.ret =
              [kb |-> Keyboard_constructor(options, firefox), added |-> Len(options),
               keydowns |-> 0, evt |-> NoEvent, invoked |-> <<>>,
               prevented |-> FALSE]]
  /\ lastOp = "init"
  /\ nHost = 0
  /\ nApp = 0
  /\ opt = [pc |-> "off", e |-> 0, o |-> 0]

\* keyboard.addBinding(binding) after the construction
AddBinding ==
  /\ h.ret.added < MaxConfigured
  /\ \E binding \in ConfiguredBindings :
       h' = [h EXCEPT !.ret.kb = Keyboard_addBinding(h.ret.kb, binding),
                      !.ret.added = @ + 1,
                      !.ret.evt = NoEvent, !.ret.invoked = <<>>,
                      !.ret.prevented = FALSE]
  /\ lastOp' = "addBinding"
  /\ UNCHANGED <<nHost, nApp, opt>>

\* a keydown event reaches the listener
KeyDownEvent ==
  /\ h.ret.keydowns < MaxKeydowns
  /\ \E key \in KeyNames,
        shiftKey, defaultPrevented, focus, prefixShort, suffixShort \in BOOLEAN,
        selection \in {"null", "collapsed", "range"}, offset \in 0..1 :
       LET evt == [key |-> key, which |-> KeyCode(key), shiftKey |-> shiftKey,
                   defaultPrevented |-> defaultPrevented,
                   selection |-> selection, focus |-> focus,
                   offset |-> offset, prefixShort |-> prefixShort,
                   suffixShort |-> suffixShort]
           r == Keyboard_keydown(h.ret.kb, evt)
       IN h' = [h EXCEPT !.ret.keydowns = @ + 1,
                         !.ret.evt = evt, !.ret.invoked = r.invoked,
                         !.ret.prevented = r.prevented]
  /\ lastOp' = "keydownEvent"
  /\ UNCHANGED <<nHost, nApp, opt>>

NextBind ==
  \/ AddBinding
  \/ KeyDownEvent

SpecBind == InitBind /\ [][NextBind]_vars

\* the bindings registered for the event's key, by name or by number, in
\* the order of their registration
RECURSIVE ByRegistration(_, _, _)
ByRegistration(bs, i, n) ==
  IF i > n THEN <<>>
  ELSE SelectSeq(bs, LAMBDA b : b.id = i) \o ByRegistration(bs, i + 1, n)

\* the modifier and context conditions of a binding hold for the event
ConditionsHold(b, evt) ==
  /\ (b.shiftKey = "null" \/ (b.shiftKey = "true") = evt.shiftKey)
  /\ (b.collapsed = "any" \/ (b.collapsed = "true") = (evt.selection = "collapsed"))
  /\ (b.offset = "any" \/ evt.offset = 0)
  /\ (b.prefix = "any" \/ evt.prefixShort)
  /\ (b.suffix = "any" \/ evt.suffixShort)

\* the listener returns before it looks at a binding's handler
Ignored(evt) == evt.defaultPrevented \/ evt.selection = "null" \/ ~evt.focus

\* of the bindings bs in their order: the ones whose conditions hold, up to
\* the first whose handler returns something other than true
RECURSIVE UpToFirstStop(_, _)
UpToFirstStop(bs, evt) ==
  IF bs = <<>> THEN <<>>
  ELSE IF ~ConditionsHold(bs[1], evt) THEN UpToFirstStop(Tail(bs), evt)
  ELSE IF bs[1].returns # "true" THEN <<bs[1].id>>
  ELSE <<bs[1].id>> \o UpToFirstStop(Tail(bs), evt)

\* the listener called the handlers UpToFirstStop names and prevented the
\* default iff one of them stopped the evaluation; it called none for an
\* ignored event
EvaluatedInOrder(bs, r) ==
  /\ r.invoked = IF Ignored(r.evt) THEN <<>> ELSE UpToFirstStop(bs, r.evt)
  /\ r.prevented =
       (~Ignored(r.evt) /\ \E i \in 1..Len(bs) :
          ConditionsHold(bs[i], r.evt) /\ bs[i].returns # "true")

\* C38: on a keydown the bindings registered for the key are evaluated in
\* the order of their registration, the configured ones before the built-in
\* ones; the evaluation stops at the first binding whose modifier and
\* context conditions hold and whose handler returns something other than
\* true, no later handler is called, and the default is prevented iff there
\* is such a binding; no handler is called when the event is already
\* default-prevented, the selection is null or the editor has no focus.
C38_BindingsInRegistrationOrder ==
  lastOp = "keydownEvent" =>
    EvaluatedInOrder(
      ByRegistration(h.ret.kb.bindings[h.ret.evt.key]
                       \o h.ret.kb.bindings[h.ret.evt.which], 1, h.ret.kb.n),
      h.ret)

\* ------------------------------------------------------------------
\* The fake cursor of the image grid: the cursor element's display, the
\* callbacks handed to setTimeout and not yet run, the listeners added with
\* once for SELECTION_CHANGE, and the IMAGE_GRID_FOCUS events emitted.

\* the argument of an IMAGE_GRID_FOCUS event: undefined, or the blot with
\* its offsets
FocusUndefined == [blot |-> "undefined", cursorOffset |-> 0, maxCursorOffset |-> 0]

FocusBlot(cursorOffset, maxCursorOffset) ==
  [blot |-> "this", cursorOffset |-> cursorOffset,
   maxCursorOffset |-> maxCursorOffset]

\* hideFakeCursor(): the cursor's display becomes none and IMAGE_GRID_FOCUS
\* is emitted with undefined
hideFakeCursor(g) ==
  [g EXCEPT !.display = "none", !.events = Append(@, FocusUndefined)]

\* showFakeCursor(index): the cursor's display becomes block and the
\* callback, which keeps cursorOffset and maxCursorOffset, goes to setTimeout
showFakeCursor(g, index) ==
  [g EXCEPT !.display = "block",
            !.timers = Append(@, [index |-> index,
                                  cursorOffset |-> IF index < 0 THEN g.images
                                                   ELSE index,
                                  maxCursorOffset |-> g.images])]

\* the callback of showFakeCursor: one more listener for the next
\* SELECTION_CHANGE, then IMAGE_GRID_FOCUS with the blot
deferredCallback(g) ==
  [g EXCEPT !.timers = Tail(@),
            !.once = @ + 1,
            !.events = Append(@, FocusBlot(g.timers[1].cursorOffset,
                                           g.timers[1].maxCursorOffset))]

\* SELECTION_CHANGE is emitted: every listener added with once runs
\* hideFakeCursor and is gone
RECURSIVE emitSelectionChange(_, _)
emitSelectionChange(g, n) ==
  IF n = 0 THEN [g EXCEPT !.once = 0]
  ELSE emitSelectionChange(hideFakeCursor(g), n - 1)

\* an image grid of one or more images; the cursor element is created with
\* no display of its own
InitCursor ==
  /\ \E images \in 1..MaxImages :
       h = [InitHeap EXCEPT !.ret =
              [images |-> images, display |-> "", timers |-> <<>>, once |-> 0,
               events |-> <<>>, shows |-> 0, hides |-> 0, changes |-> 0]]
  /\ lastOp = "init"
  /\ nHost = 0
  /\ nApp = 0
  /\ opt = [pc |-> "off", e |-> 0, o |-> 0]

ShowCall ==
  /\ h.ret.shows < MaxShows
  /\ \E index \in -1..h.ret.images :
       h' = [h EXCEPT !.ret = [showFakeCursor(h.ret, index) EXCEPT !.shows = @ + 1]]
  /\ lastOp' = "showFakeCursor"
  /\ UNCHANGED <<nHost, nApp, opt>>

\* the oldest callback handed to setTimeout runs
Timeout ==
  /\ h.ret.timers # <<>>
  /\ h' = [h EXCEPT !.ret = deferredCallback(h.ret)]
  /\ lastOp' = "timeout"
  /\ UNCHANGED <<nHost, nApp, opt>>

HideCall ==
  /\ h.ret.hides < MaxHides
  /\ h' = [h EXCEPT !.ret = [hideFakeCursor(h.ret) EXCEPT !.hides = @ + 1]]
  /\ lastOp' = "hideFakeCursor"
  /\ UNCHANGED <<nHost, nApp, opt>>

SelectionChange ==
  /\ h.ret.changes < MaxChanges
  /\ h' = [h EXCEPT !.ret = [emitSelectionChange(h.ret, h.ret.once)
                               EXCEPT !.changes = @ + 1]]
  /\ lastOp' = "selectionChange"
  /\ UNCHANGED <<nHost, nApp, opt>>

NextCursor ==
  \/ ShowCall
  \/ Timeout
  \/ HideCall
  \/ SelectionChange

SpecCursor == InitCursor /\ [][NextCursor]_vars

\* the callback of a showFakeCursor(index) call emits one event, with the
\* blot and cursorOffset = index, or the number of images for index < 0
CallbackEmitsFocus ==
  lastOp' = "timeout" =>
    /\ Len(h'.ret.events) = Len(h.ret.events) + 1
    /\ h'.ret.events[Len(h'.ret.events)].blot = "this"
    /\ h'.ret.events[Len(h'.ret.events)].cursorOffset =
         IF h.ret.timers[1].index < 0 THEN h.ret.images
         ELSE h.ret.timers[1].index

\* a SELECTION_CHANGE with a callback's listener waiting hides the cursor
\* and emits undefined
SelectionChangeHides ==
  (lastOp' = "selectionChange" /\ h.ret.once > 0) =>
    /\ h'.ret.display = "none"
    /\ h'.ret.once = 0
    /\ Len(h'.ret.events) > Len(h.ret.events)
    /\ h'.ret.events[Len(h'.ret.events)] = FocusUndefined

\* while the cursor is hidden the last focus event emitted carries no blot
HiddenMeansUnfocused ==
  (h.ret.display = "none" /\ h.ret.events # <<>>) =>
    h.ret.events[Len(h.ret.events)] = FocusUndefined

\* C39: every showFakeCursor(index) call leads, when its deferred callback
\* runs, to one IMAGE_GRID_FOCUS event with cursorOffset = index (the number
\* of images for index < 0); the first SELECTION_CHANGE after the callback
\* hides the cursor and emits IMAGE_GRID_FOCUS with undefined; and under
\* every interleaving of show calls, callbacks, hide calls and selection
\* changes, the last focus event emitted is never one with a blot while the
\* cursor is hidden.
C39_FocusFollowsCursor ==
  [][CallbackEmitsFocus /\ SelectionChangeHides /\ HiddenMeansUnfocused']_vars

====
